---- MODULE Spec2Model ----
(***************************************************************************)
(* Model of the cubelaunch core package: the rule evaluator, the version   *)
(* resolver (dependency walk, manifest normalisation, merge), the launch   *)
(* argument normaliser and the installation diagnoser.                     *)
(*                                                                         *)
(* Conventions.  An optional JavaScript value (a property that may be      *)
(* absent/undefined) is a set with at most one element: None is absent,    *)
(* Some(x) is present with value x.  A string that the code takes apart    *)
(* (an arch, an OS version) is a sequence of one-character strings.        *)
(* Calls are modelled by the function they evidently name (walk calls      *)
(* Version.normalizeVersionJson, parse calls Version.resolveDependency),   *)
(* and an awaited value is the value the promise settles with.             *)
(***************************************************************************)
EXTENDS Integers, Sequences, FiniteSets, TLC

VARIABLES
  rules,        \* checkAllowed: the rule list passed in
  platform,     \* the platform every evaluation runs against
  featureList,  \* checkAllowed: the active feature names (third parameter)
  allow,        \* checkAllowed: the returned boolean, None before the call
  features,     \* generateArguments: options.features (name -> truthy?)
  versionArgs,  \* generateArguments: version.arguments {jvm, game}
  launchArgs,   \* generateArguments: {jvm, game} after normalizeArguments, None before
  launchOptions, \* generateArguments: the options other than features, platform, version
  argv,         \* generateArguments: the returned cmd, None before and on a throw
  launchError,  \* generateArguments: the error thrown, None otherwise
  versionFiles, \* {root}/versions/{v}/{v}.json by v: what a read of it has shown
  target,       \* Version.parse: the requested version id
  versionName,  \* resolveDependency: the argument of the pending walk call
  stack,        \* resolveDependency: the manifests pushed so far
  loaded,       \* history: the file names walk has read and pushed, in load order
  walkPc,       \* resolveDependency: "walk", "returned" or "threw"; "idle" outside a parse
  walkError,    \* the error resolveDependency threw, None otherwise
  resolved,     \* Version.resolve: the ResolvedVersion returned, None otherwise
  resolveError, \* Version.resolve: the error thrown, None otherwise
  disk,         \* the installed files by path: what a stat/exists/read has shown
  options,      \* diagnose: the options argument {given, strict, signal}
  aborted,      \* options.signal.aborted
  diagPc,       \* diagnose: "parse", "jar", "assetIndex", "libraries", "assets",
                \*   "done", "rejected"; "idle" outside a diagnose
  resolvedVersion, \* diagnose: the ResolvedVersion of Version.parse, None before
  tasks,        \* diagnose: the checks of the running stage, in list order
  assetIndexIssue, \* diagnose: the issue of the asset-index check, None if none
  issues,       \* diagnose: report.issues
  formatTemplate, \* format: the template string, as its pieces
  formatArgs,   \* format: the map of keys to values
  formatted,    \* format: the returned string, None before the call
  rawLib,       \* resolveLibrary: the library entry of a manifest
  resolvedLib,  \* resolveLibrary: Some(what it returned), None before the call
  coordinate,   \* LibraryInfo.resolve: the parts of the coordinate string passed
  resolvedInfo, \* LibraryInfo.resolve: the LibraryInfo returned, None before the call
  pathInfo,     \* LibraryInfo.resolveFromPath: its result on that path, None before
  zip,          \* unzip: the ZipFile (entries, lazyEntries, what it has emitted, listeners)
  gen,          \* walkEntriesGenerator: its position and its locals
  consumer,     \* the function iterating the generator, its locals and its promise
  emitted,      \* history: the entries the zip has emitted through an 'entry' event
  offPace       \* history: an event was delivered while a promise job was pending

ruleVars == <<rules, featureList, allow>>
launchVars == <<features, versionArgs, launchArgs, launchOptions, argv, launchError>>
resolverVars ==
  <<versionFiles, target, versionName, stack, loaded, walkPc, walkError, resolved, resolveError>>
diagVars ==
  <<disk, options, aborted, diagPc, resolvedVersion, tasks, assetIndexIssue, issues>>
unzipVars == <<zip, gen, consumer, emitted, offPace>>
pureVars ==
  <<formatTemplate, formatArgs, formatted, rawLib, resolvedLib, coordinate, resolvedInfo,
    pathInfo, unzipVars>>
vars == <<rules, platform, featureList, allow, features, versionArgs, launchArgs,
          launchOptions, argv, launchError,
          versionFiles, target, versionName, stack, loaded, walkPc, walkError,
          resolved, resolveError,
          disk, options, aborted, diagPc, resolvedVersion, tasks, assetIndexIssue, issues,
          formatTemplate, formatArgs, formatted, rawLib, resolvedLib, coordinate,
          resolvedInfo, pathInfo, zip, gen, consumer, emitted, offPace>>

None == {}
Some(x) == {x}
Get(o) == CHOOSE x \in o : TRUE

\* the version ids that name a file under versions/
FileNames == {"A", "B", "C"}

\* a version file no walk has read yet
Unread == [state |-> "unread", json |-> None]

\* the resolver's variables while no parse is running
ResolverIdle ==
  /\ versionFiles = [f \in FileNames |-> Unread]
  /\ target = "A"
  /\ versionName = "A"
  /\ stack = <<>>
  /\ loaded = <<>>
  /\ walkPc = "idle"
  /\ walkError = None
  /\ resolved = None
  /\ resolveError = None

NoOptions == [given |-> FALSE, strict |-> FALSE, signal |-> FALSE]

\* the diagnoser's variables while no diagnose is running
DiagnoseIdle ==
  /\ disk = <<>>
  /\ options = NoOptions
  /\ aborted = FALSE
  /\ diagPc = "idle"
  /\ resolvedVersion = None
  /\ tasks = <<>>
  /\ assetIndexIssue = None
  /\ issues = <<>>

\* the launch options with every optional option left out
DefaultLaunchOptions ==
  [javaPath |-> "java", gameName |-> None, gameIcon |-> None, indexIcon |-> None,
   minMemory |-> None, maxMemory |-> None,
   ignoreInvalidMinecraftCertificates |-> FALSE, ignorePatchDiscrepancies |-> FALSE,
   yggdrasilAgent |-> None, logging |-> None, logConfigExists |-> FALSE,
   extraJVMArgs |-> None, extraMCArgs |-> None, server |-> None, resolution |-> None]

\* the other launch variables while no argv is asked for
LaunchRestIdle ==
  /\ launchOptions = DefaultLaunchOptions
  /\ argv = None
  /\ launchError = None

\* the variables of the pure functions while none of them is being applied
FormatIdle ==
  /\ formatTemplate = <<>>
  /\ formatArgs = <<>>
  /\ formatted = None

LibraryIdle ==
  /\ rawLib = <<>>
  /\ resolvedLib = None

CoordinateIdle ==
  /\ coordinate = <<>>
  /\ resolvedInfo = None
  /\ pathInfo = None

\* the unzip variables while no zip is being iterated
UnzipIdle ==
  /\ zip = <<>>
  /\ gen = <<>>
  /\ consumer = <<>>
  /\ emitted = <<>>
  /\ offPace = FALSE

PureIdle == FormatIdle /\ LibraryIdle /\ CoordinateIdle /\ UnzipIdle

(***************************************************************************)
(* Bounds of the model.                                                    *)
(***************************************************************************)
MaxRules == 2
MaxArgs == 2
MaxStack == 4

(***************************************************************************)
(* Platforms (platform.js getPlatform yields name, version, arch).         *)
(***************************************************************************)
Linux64 == [name |-> "linux", version |-> <<"5", ".", "4">>, arch |-> <<"x", "6", "4">>]
Win10x86 == [name |-> "windows", version |-> <<"1", "0", ".", "0">>, arch |-> <<"x", "8", "6">>]
OsxArm == [name |-> "osx", version |-> <<"2", "1", ".", "0">>, arch |-> <<"a", "r", "m", "6", "4">>]
Platforms == {Linux64, Win10x86, OsxArm}

FeatureNames == {"is_demo_user", "has_custom_resolution"}

(***************************************************************************)
(* String.prototype.match with a regex source: an unanchored search for    *)
(* the literal, anchored at the start when the source begins with ^.       *)
(***************************************************************************)
Regex(anchored, lit) == [anchored |-> anchored, lit |-> lit]

match(str, re) ==
  \E i \in 1..(Len(str) - Len(re.lit) + 1) :
     /\ SubSeq(str, i, i + Len(re.lit) - 1) = re.lit
     /\ (re.anchored => i = 1)

(***************************************************************************)
(* Rules.  os and features are optional; inside os each of name, version   *)
(* and arch is optional.                                                   *)
(***************************************************************************)
Os(name, version, arch) == [name |-> name, version |-> version, arch |-> arch]
Rule(action, os, feats) == [action |-> action, os |-> os, features |-> feats]

\* part_001 115-123: the os clause of one rule
osApplies(rule, plat) ==
  IF rule.os # None
  THEN LET osRule == Get(rule.os)
       IN /\ osRule.name = Some(plat.name)
          /\ (osRule.version = None \/ match(plat.version, Get(osRule.version)))
  ELSE TRUE

\* part_001 125-131: the features clause of one rule
featuresApply(rule, feats) ==
  IF rule.features # None
  THEN LET featureRequire == Get(rule.features)
       IN \A k \in DOMAIN featureRequire :
            IF featureRequire[k] THEN k \in feats ELSE k \notin feats
  ELSE TRUE

ruleApplies(rule, plat, feats) ==
  osApplies(rule, plat) /\ featuresApply(rule, feats)

\* part_001 111-136: the loop over the rules, from index i with running allow
RECURSIVE scanRules(_, _, _, _, _)
scanRules(rs, i, plat, feats, acc) ==
  IF i > Len(rs) THEN acc
  ELSE scanRules(rs, i + 1, plat, feats,
                 IF ruleApplies(rs[i], plat, feats) THEN rs[i].action = "allow" ELSE acc)

checkAllowedFirstWins(rs, plat, feats) ==
  IF Len(rs) = 0 THEN TRUE
  ELSE LET hits == {i \in 1..Len(rs) : ruleApplies(rs[i], plat, feats)}
       IN IF hits = {} THEN FALSE
          ELSE rs[CHOOSE i \in hits : \A j \in hits : i <= j].action = "allow"

\* part_001 104-139
checkAllowed(rs, plat, feats) ==
  IF Len(rs) = 0 THEN TRUE ELSE scanRules(rs, 1, plat, feats, FALSE)

(***************************************************************************)
(* Argument elements: a plain string, or a conditional object with rules   *)
(* and a value that is one string or an array of strings.                  *)
(***************************************************************************)
Str(s) == [kind |-> "string", str |-> s, rules |-> <<>>, isArray |-> FALSE, value |-> <<>>]
Cond(rs, v) == [kind |-> "object", str |-> "", rules |-> rs, isArray |-> FALSE, value |-> <<v>>]
CondArr(rs, vs) == [kind |-> "object", str |-> "", rules |-> rs, isArray |-> TRUE, value |-> vs]

\* Object.keys(features): every own key, whatever its value
ObjectKeys(obj) == DOMAIN obj

TruthyKeys(obj) == {k \in DOMAIN obj : obj[k]}

\* part_002 76-83: what one element maps to (a string, '' or arg.value)
argContribution(arg, plat, active) ==
  IF arg.kind = "string" THEN (IF arg.str = "" THEN <<>> ELSE <<arg.str>>)
  ELSE IF ~checkAllowed(arg.rules, plat, active) THEN <<>>
  ELSE IF arg.isArray THEN arg.value
  ELSE (IF arg.value[1] = "" THEN <<>> ELSE arg.value)

RECURSIVE flattenArgs(_, _, _, _)
flattenArgs(as, i, plat, active) ==
  IF i > Len(as) THEN <<>>
  ELSE argContribution(as[i], plat, active) \o flattenArgs(as, i + 1, plat, active)

\* part_002 75-92
normalizeArguments(as, plat, feats) == flattenArgs(as, 1, plat, ObjectKeys(feats))

(***************************************************************************)
(* Rules used by the inputs below.                                         *)
(***************************************************************************)
AllowAll == Rule("allow", None, None)
DisallowAll == Rule("disallow", None, None)
AllowLinux == Rule("allow", Some(Os(Some("linux"), None, None)), None)
DisallowOsx == Rule("disallow", Some(Os(Some("osx"), None, None)), None)
AllowWin10 == Rule("allow", Some(Os(Some("windows"), Some(Regex(TRUE, <<"1", "0", ".">>)), None)), None)
AllowWin6 == Rule("allow", Some(Os(Some("windows"), Some(Regex(TRUE, <<"6", ".">>)), None)), None)
AllowLinuxX86 == Rule("allow", Some(Os(Some("linux"), None, Some(<<"x", "8", "6">>))), None)
AllowArchX86 == Rule("allow", Some(Os(None, None, Some(<<"x", "8", "6">>))), None)
AllowVersion10 == Rule("allow", Some(Os(None, Some(Regex(FALSE, <<"0", ".">>)), None)), None)
AllowDemo == Rule("allow", None, Some([k \in {"is_demo_user"} |-> TRUE]))
AllowNotDemo == Rule("allow", None, Some([k \in {"is_demo_user"} |-> FALSE]))
AllowWindows == Rule("allow", Some(Os(Some("windows"), None, None)), None)
DisallowCustomRes == Rule("disallow", None, Some([k \in {"has_custom_resolution"} |-> TRUE]))

RulePool ==
  {AllowAll, DisallowAll, AllowLinux, DisallowOsx, AllowWin10, AllowWin6,
   AllowLinuxX86, AllowArchX86, AllowVersion10, AllowDemo, AllowNotDemo, DisallowCustomRes}

SeqsUpTo(S, n) == UNION {[1..k -> S] : k \in 0..n}

InitRules ==
  /\ rules \in SeqsUpTo(RulePool, MaxRules)
  /\ platform \in Platforms
  /\ featureList \in SUBSET FeatureNames
  /\ allow = None
  /\ features = <<>>
  /\ versionArgs = [jvm |-> <<>>, game |-> <<>>]
  /\ launchArgs = None
  /\ LaunchRestIdle
  /\ ResolverIdle
  /\ DiagnoseIdle
  /\ PureIdle

\* a caller evaluates the rule list
CheckAllowed ==
  /\ allow = None
  /\ allow' = Some(checkAllowed(rules, platform, featureList))
  /\ UNCHANGED <<pureVars, rules, platform, featureList, launchVars, resolverVars, diagVars>>

NextRules == CheckAllowed

SpecRules == InitRules /\ [][NextRules]_vars

\* the indices of the rules that apply, as the loop of checkAllowed decides it
Applicable(rs, plat, feats) == {i \in 1..Len(rs) : ruleApplies(rs[i], plat, feats)}

MaxOf(S) == CHOOSE i \in S : \A j \in S : j <= i

\* C4: checkAllowed returns allow for an empty rule list; otherwise the result
\* is the action of the last rule that applies (allow iff that action is
\* 'allow'), and disallow when no rule applies.
C4_LastApplicableRuleWins ==
  \A b \in allow :
    b = IF Len(rules) = 0 THEN TRUE
        ELSE LET hits == Applicable(rules, platform, featureList)
             IN hits # {} /\ rules[MaxOf(hits)].action = "allow"

\* an evaluated list in which two rules of opposite action both apply
C4_Witness ==
  /\ allow # None
  /\ Len(rules) = 2
  /\ Applicable(rules, platform, featureList) = {1, 2}
  /\ rules[1].action = "allow"
  /\ rules[2].action = "disallow"
  /\ allow = Some(FALSE)

\* the os clause as the rule format states it: every field that is present
\* must match, an absent field places no constraint
osClauseMatches(rule, plat) ==
  \A o \in rule.os :
    /\ \A n \in o.name : n = plat.name
    /\ \A v \in o.version : match(plat.version, v)
    /\ \A a \in o.arch : a = plat.arch

\* C5: a rule with an os clause applies only if every present field (name,
\* version, arch) matches the platform, and absent fields do not constrain:
\* the result of checkAllowed is decided by the last rule whose os clause
\* matches in that sense (and whose features clause holds).
C5_OsClauseEveryPresentField ==
  \A b \in allow :
    b = IF Len(rules) = 0 THEN TRUE
        ELSE LET hits == {i \in 1..Len(rules) :
                            /\ osClauseMatches(rules[i], platform)
                            /\ featuresApply(rules[i], featureList)}
             IN hits # {} /\ rules[MaxOf(hits)].action = "allow"

(***************************************************************************)
(* format (part_002 68-73).  A string is the sequence of its pieces: the   *)
(* characters "$", "{" and "}" one by one, and chunks of text that hold    *)
(* none of the three.  A map value is a string or a number.                *)
(***************************************************************************)
MaxSegments == 3

StringValue(text) == [kind |-> "string", text |-> text, number |-> 0]
NumberValue(n) == [kind |-> "number", text |-> <<>>, number |-> n]

\* the truthiness of a string or number
truthy(v) == IF v.kind = "string" THEN v.text # <<>> ELSE v.number # 0

\* String(v)
toString(v) == IF v.kind = "string" THEN v.text ELSE <<ToString(v.number)>>

\* the index of the first "}" at or after j, 0 if there is none
closeAfter(t, j) ==
  LET closes == {k \in j..Len(t) : t[k] = "}"}
  IN IF closes = {} THEN 0 ELSE CHOOSE k \in closes : \A l \in closes : k <= l

\* part_002 70: key.substring(2).substring(0, key.length - 3)
placeholderName(key) ==
  LET rest == SubSeq(key, 3, Len(key))
      n == Len(key) - 3
  IN SubSeq(rest, 1, IF n < Len(rest) THEN n ELSE Len(rest))

\* part_002 70-71: args[name], then value || key
valueOrKey(args, key) ==
  LET name == placeholderName(key)
  IN IF name \in DOMAIN args /\ truthy(args[name]) THEN toString(args[name]) ELSE key

\* String.prototype.replace(/\$\{(.*?)}/g, fn): the matches left to right,
\* each from a "${" to the first "}" after it, the scan resuming behind it
RECURSIVE replaceFrom(_, _, _)
replaceFrom(t, i, args) ==
  IF i > Len(t) THEN <<>>
  ELSE IF i < Len(t) /\ t[i] = "$" /\ t[i + 1] = "{" /\ closeAfter(t, i + 2) # 0
  THEN valueOrKey(args, SubSeq(t, i, closeAfter(t, i + 2)))
       \o replaceFrom(t, closeAfter(t, i + 2) + 1, args)
  ELSE <<t[i]>> \o replaceFrom(t, i + 1, args)

\* part_002 68-73
format(t, args) == replaceFrom(t, 1, args)

Segments ==
  {<<"$", "{", "k", "}">>, <<"$", "{", "u", "}">>, <<"a">>, <<"$">>, <<"}">>, <<"$", "{">>}

RECURSIVE Templates(_)
Templates(n) ==
  IF n = 0 THEN {<<>>}
  ELSE Templates(n - 1) \cup {t \o g : t \in Templates(n - 1), g \in Segments}

FormatValues ==
  {StringValue(<<"v">>), StringValue(<<>>), StringValue(<<"$", "{", "k", "}">>),
   NumberValue(0), NumberValue(7)}

FormatMaps == {<<>>} \cup {[name \in {<<"k">>} |-> v] : v \in FormatValues}

InitFormat ==
  /\ rules = <<>>
  /\ featureList = {}
  /\ allow = None
  /\ platform = Linux64
  /\ features = <<>>
  /\ versionArgs = [jvm |-> <<>>, game |-> <<>>]
  /\ launchArgs = None
  /\ LaunchRestIdle
  /\ ResolverIdle
  /\ DiagnoseIdle
  /\ formatTemplate \in Templates(MaxSegments)
  /\ formatArgs \in FormatMaps
  /\ formatted = None
  /\ LibraryIdle
  /\ CoordinateIdle
  /\ UnzipIdle

Format ==
  /\ formatted = None
  /\ formatted' = Some(format(formatTemplate, formatArgs))
  /\ UNCHANGED <<unzipVars, ruleVars, launchVars, resolverVars, diagVars, platform, formatTemplate,
                 formatArgs, rawLib, resolvedLib, coordinate, resolvedInfo, pathInfo>>

NextFormat == Format

SpecFormat == InitFormat /\ [][NextFormat]_vars

\* the template with every ${key} whose key is in the map replaced by the
\* map's value, the matches taken left to right and not rescanned
RECURSIVE substituted(_, _, _)
substituted(t, i, args) ==
  IF i > Len(t) THEN <<>>
  ELSE IF i < Len(t) /\ t[i] = "$" /\ t[i + 1] = "{" /\ closeAfter(t, i + 2) # 0
  THEN LET key == SubSeq(t, i, closeAfter(t, i + 2))
           name == SubSeq(key, 3, Len(key) - 1)
       IN (IF name \in DOMAIN args THEN toString(args[name]) ELSE key)
          \o substituted(t, closeAfter(t, i + 2) + 1, args)
  ELSE <<t[i]>> \o substituted(t, i + 1, args)

\* C15: format replaces every ${key} whose key is in the map by the map's
\* value, in a single pass, for every value including '' and 0, and leaves
\* every ${key} whose key is not in the map verbatim.
C15_FormatSubstitutesEveryKnownKey ==
  formatted # None => Get(formatted) = substituted(formatTemplate, 1, formatArgs)

(***************************************************************************)
(* generateArguments: the normalisation of version.arguments against the   *)
(* platform and options.features (part_002 110-112).                       *)
(***************************************************************************)
AllowCustomRes == Rule("allow", None, Some([k \in {"has_custom_resolution"} |-> TRUE]))

ArgPool ==
  {Str("--username"), Str(""),
   Cond(<<AllowDemo>>, "--demo"),
   Cond(<<AllowNotDemo>>, "--full"),
   CondArr(<<AllowCustomRes>>, <<"--width", "${resolution_width}">>),
   Cond(<<AllowLinux>>, "-Dos.linux")}

JvmLists ==
  {<<>>, <<Str("-cp"), Str("${classpath}")>>,
   <<Cond(<<AllowWin10>>, "-Dos.version=10.0"), Str("-cp")>>}

FeatureMaps == UNION {[S -> BOOLEAN] : S \in SUBSET FeatureNames}

(***************************************************************************)
(* generateArguments: the command line (part_002 95-255).  An element of   *)
(* cmd is its text, as pieces, with the step of the code that pushed it.   *)
(***************************************************************************)
Arg(origin, text) == [origin |-> origin, text |-> text]

\* an argument string of a version as its pieces
pieces(str) ==
  CASE str = "" -> <<>>
    [] str = "${classpath}" -> <<"$", "{", "classpath", "}">>
    [] str = "${resolution_width}" -> <<"$", "{", "resolution_width", "}">>
    [] str = "${auth_player_name}" -> <<"$", "{", "auth_player_name", "}">>
    [] str = "${version_type}" -> <<"$", "{", "version_type", "}">>
    [] OTHER -> <<str>>

\* the resolved version handed in as options.version, but for its arguments
LaunchVersion ==
  [id |-> "1.20-forge", minecraftVersion |-> "1.20",
   mainClass |-> "net.minecraft.client.main.Main", assets |-> "5", type |-> "release",
   libraries |-> <<[isNative |-> FALSE, path |-> "libraries/authlib.jar"],
                   [isNative |-> TRUE, path |-> "libraries/lwjgl-natives.jar"]>>]

\* part_002 58-66
DEFAULT_EXTRA_JVM_ARGS ==
  <<"-Xmx2G", "-XX:+UnlockExperimentalVMOptions", "-XX:+UseG1GC",
    "-XX:G1NewSizePercent=20", "-XX:G1ReservePercent=20", "-XX:MaxGCPauseMillis=50",
    "-XX:G1HeapRegionSize=32M">>

\* the truthiness of an optional number
set(n) == n # None /\ Get(n) # 0

\* Array.prototype.filter
RECURSIVE filter(_, _)
filter(seq, keep) ==
  IF seq = <<>> THEN <<>>
  ELSE (IF Head(seq) \in keep THEN <<Head(seq)>> ELSE <<>>) \o filter(Tail(seq), keep)

\* Array.prototype.join
RECURSIVE join(_, _)
join(seq, delimiter) ==
  IF seq = <<>> THEN <<>>
  ELSE IF Len(seq) = 1 THEN <<seq[1]>>
  ELSE <<seq[1], delimiter>> \o join(Tail(seq), delimiter)

\* String.prototype.replace(pattern, by) with a string pattern: the first
\* occurrence only
replaceFirst(t, pattern, by) ==
  LET at == {i \in 1..(Len(t) - Len(pattern) + 1) :
               SubSeq(t, i, i + Len(pattern) - 1) = pattern}
  IN IF at = {} THEN t
     ELSE LET i == CHOOSE k \in at : \A l \in at : k <= l
          IN SubSeq(t, 1, i - 1) \o by \o SubSeq(t, i + Len(pattern), Len(t))

\* part_002 118-130: options.gameIcon, else the icon the asset index lists
gameIconOf(o) ==
  IF o.gameIcon # None THEN Get(o.gameIcon)
  ELSE IF o.indexIcon # None THEN Get(o.indexIcon)
  ELSE ""

\* part_002 134-139
dockPart(o, plat) ==
  IF plat.name # "osx" THEN <<>>
  ELSE <<Arg("dock", <<"-Xdock:name=",
                       IF o.gameName # None THEN Get(o.gameName) ELSE "Minecraft">>)>>
       \o (IF gameIconOf(o) # "" THEN <<Arg("dock", <<"-Xdock:icon=", gameIconOf(o)>>)>>
           ELSE <<>>)

\* part_002 141-146
memoryPart(o) ==
  (IF set(o.minMemory) THEN <<Arg("memory", <<"-Xms", ToString(Get(o.minMemory)), "M">>)>>
   ELSE <<>>)
  \o (IF set(o.maxMemory)
      THEN <<Arg("memory", <<"-Xmx", ToString(Get(o.maxMemory)), "M">>)>>
      ELSE <<>>)

\* part_002 148-153
fmlPart(o) ==
  (IF o.ignoreInvalidMinecraftCertificates
   THEN <<Arg("fml", <<"-Dfml.ignoreInvalidMinecraftCertificates=true">>)>> ELSE <<>>)
  \o (IF o.ignorePatchDiscrepancies
      THEN <<Arg("fml", <<"-Dfml.ignorePatchDiscrepancies=true">>)>> ELSE <<>>)

\* part_002 155-161
agentPart(o) ==
  IF o.yggdrasilAgent = None THEN <<>>
  ELSE LET agent == Get(o.yggdrasilAgent)
       IN <<Arg("agent", <<"-javaagent:", agent.jar, "=", agent.server>>),
            Arg("agent", <<"-Dauthlibinjector.side=client">>)>>
          \o (IF agent.prefetched # ""
              THEN <<Arg("agent", <<"-Dauthlibinjector.yggdrasil.prefetched=",
                                    agent.prefetched>>)>>
              ELSE <<>>)

\* part_002 167-171
classpathOf(version) ==
  LET libs == version.libraries
      kept == filter(libs, {l \in {libs[k] : k \in 1..Len(libs)} : ~l.isNative})
  IN join([i \in 1..Len(kept) |-> kept[i].path] \o <<"versions/1.20/1.20.jar">>, ":")

\* part_002 163-176 (options.features holds booleans: featureValues is {})
jvmOptions(version) ==
  (<<"natives_directory">> :> StringValue(<<"versions/1.20-forge/1.20-forge-natives">>))
  @@ (<<"launcher_name">> :> StringValue(<<"Launcher">>))
  @@ (<<"launcher_version">> :> StringValue(<<"0.0.1">>))
  @@ (<<"classpath">> :> StringValue(classpathOf(version)))
  @@ (<<"library_directory">> :> StringValue(<<"libraries">>))
  @@ (<<"classpath_separator">> :> StringValue(<<":">>))
  @@ (<<"version_name">> :> StringValue(<<version.minecraftVersion>>))

\* part_002 178-185: the logging argument joins the JVM arguments if the log
\* configuration file exists
loggingPart(o) ==
  IF o.logging # None /\ o.logConfigExists
  THEN <<replaceFirst(Get(o.logging), <<"$", "{", "path", "}">>,
                      <<"assets/log_configs/client.xml">>)>>
  ELSE <<>>

\* part_002 187
jvmPart(o, version, jvmArguments) ==
  LET templates == [i \in 1..Len(jvmArguments) |-> pieces(jvmArguments[i])] \o loggingPart(o)
  IN [i \in 1..Len(templates) |-> Arg("jvm", format(templates[i], jvmOptions(version)))]

\* part_002 190: options.extraJVMArgs.some((v) => typeof v !== 'string')
extraJVMArgsThrow(o) ==
  /\ o.extraJVMArgs # None
  /\ \E i \in 1..Len(Get(o.extraJVMArgs)) : Get(o.extraJVMArgs)[i].kind # "string"

defaultExtraJVMArgsUnfiltered(o) ==
  [i \in 1..Len(DEFAULT_EXTRA_JVM_ARGS) |-> Arg("default", <<DEFAULT_EXTRA_JVM_ARGS[i]>>)]

\* part_002 195-201
defaultExtraJVMArgs(o) ==
  LET flags == IF set(o.maxMemory)
               THEN filter(DEFAULT_EXTRA_JVM_ARGS,
                           {DEFAULT_EXTRA_JVM_ARGS[i] : i \in 1..Len(DEFAULT_EXTRA_JVM_ARGS)}
                             \ {"-Xmx2G"})
               ELSE DEFAULT_EXTRA_JVM_ARGS
  IN [i \in 1..Len(flags) |-> Arg("default", <<flags[i]>>)]

\* part_002 189-202
extraJVMPart(o) ==
  IF o.extraJVMArgs # None
  THEN [i \in 1..Len(Get(o.extraJVMArgs)) |-> Arg("extraJVM", <<Get(o.extraJVMArgs)[i].str>>)]
  ELSE defaultExtraJVMArgs(o)

\* part_002 208-227: a resolution without width or height leaves the key
\* undefined
mcOptions(o, version) ==
  LET resolution == o.resolution
      width == IF resolution = None THEN Some(-1) ELSE Get(resolution).width
      height == IF resolution = None THEN Some(-1) ELSE Get(resolution).height
  IN (<<"version_name">> :> StringValue(<<version.id>>))
     @@ (<<"version_type">> :> StringValue(<<version.type>>))
     @@ (<<"assets_root">> :> StringValue(<<"assets">>))
     @@ (<<"game_assets">> :> StringValue(<<"assets/virtual/", version.assets>>))
     @@ (<<"assets_index_name">> :> StringValue(<<version.assets>>))
     @@ (<<"game_directory">> :> StringValue(<<"/game">>))
     @@ (<<"auth_player_name">> :> StringValue(<<"Steve">>))
     @@ (<<"auth_uuid">> :> StringValue(<<"uuid">>))
     @@ (<<"auth_access_token">> :> StringValue(<<"token">>))
     @@ (<<"user_properties">> :> StringValue(<<"{", "}">>))
     @@ (<<"user_type">> :> StringValue(<<"Mojang">>))
     @@ (IF width = None THEN <<>> ELSE <<"resolution_width">> :> NumberValue(Get(width)))
     @@ (IF height = None THEN <<>> ELSE <<"resolution_height">> :> NumberValue(Get(height)))

\* part_002 229
gamePart(o, version, gameArguments) ==
  [i \in 1..Len(gameArguments) |->
     Arg("game", format(pieces(gameArguments[i]), mcOptions(o, version)))]

\* part_002 231-233
extraMCPart(o) ==
  IF o.extraMCArgs = None THEN <<>>
  ELSE [i \in 1..Len(Get(o.extraMCArgs)) |-> Arg("extraMC", <<Get(o.extraMCArgs)[i]>>)]

\* part_002 234-239
serverPart(o) ==
  IF o.server = None THEN <<>>
  ELSE <<Arg("server", <<"--server">>), Arg("server", <<Get(o.server).ip>>)>>
       \o (IF set(Get(o.server).port)
           THEN <<Arg("server", <<"--port">>),
                  Arg("server", <<ToString(Get(Get(o.server).port))>>)>>
           ELSE <<>>)

\* part_002 240-251
resolutionPart(o, cmd) ==
  IF o.resolution = None \/ \E i \in 1..Len(cmd) : cmd[i].text = <<"--width">> THEN <<>>
  ELSE IF Get(o.resolution).fullscreen THEN <<Arg("resolution", <<"--fullscreen">>)>>
  ELSE (IF set(Get(o.resolution).height)
        THEN <<Arg("resolution", <<"--height">>),
               Arg("resolution", <<ToString(Get(Get(o.resolution).height))>>)>>
        ELSE <<>>)
       \o (IF set(Get(o.resolution).width)
           THEN <<Arg("resolution", <<"--width">>),
                  Arg("resolution", <<ToString(Get(Get(o.resolution).width))>>)>>
           ELSE <<>>)

cmdOrderMainClassLast(java, jvmSide, main, gameSide) == java \o jvmSide \o gameSide \o main

\* the order of the pushes: part_002 132, 134-202, 204, 229-239
cmdOrder(java, jvmSide, main, gameSide) == java \o jvmSide \o main \o gameSide

\* part_002 132-254
cmdOf(o, plat, version, normalized) ==
  LET cmd == cmdOrder(<<Arg("javaPath", <<o.javaPath>>)>>,
                      dockPart(o, plat) \o memoryPart(o) \o fmlPart(o) \o agentPart(o)
                        \o jvmPart(o, version, normalized.jvm) \o extraJVMPart(o),
                      <<Arg("mainClass", <<version.mainClass>>)>>,
                      gamePart(o, version, normalized.game) \o extraMCPart(o)
                        \o serverPart(o))
  IN cmd \o resolutionPart(o, cmd)

InitArgs ==
  /\ rules = <<>>
  /\ featureList = {}
  /\ allow = None
  /\ platform \in Platforms
  /\ features \in FeatureMaps
  /\ versionArgs \in [jvm : JvmLists, game : SeqsUpTo(ArgPool, MaxArgs)]
  /\ launchArgs = None
  /\ LaunchRestIdle
  /\ ResolverIdle
  /\ DiagnoseIdle
  /\ PureIdle

\* part_002 95-255: features = options.features || {}, both argument lists
\* normalised (110-112), then the command line or the TypeError of 191
generateArguments ==
  /\ launchArgs = None
  /\ launchArgs' = Some([jvm |-> normalizeArguments(versionArgs.jvm, platform, features),
                         game |-> normalizeArguments(versionArgs.game, platform, features)])
  /\ IF extraJVMArgsThrow(launchOptions)
     THEN /\ launchError' = Some("TypeError")
          /\ UNCHANGED argv
     ELSE /\ argv' = Some(cmdOf(launchOptions, platform, LaunchVersion,
                                [jvm |-> normalizeArguments(versionArgs.jvm, platform, features),
                                 game |-> normalizeArguments(versionArgs.game, platform,
                                                             features)]))
          /\ UNCHANGED launchError
  /\ UNCHANGED <<pureVars, ruleVars, platform, features, versionArgs, launchOptions,
                 resolverVars, diagVars>>

NextArgs == generateArguments

SpecArgs == InitArgs /\ [][NextArgs]_vars

(***************************************************************************)
(* The command line under a range of launch options.                       *)
(***************************************************************************)
ExtraString(str) == [kind |-> "string", str |-> str]
ExtraNumber(str) == [kind |-> "number", str |-> str]

Resolution(width, height, fullscreen) ==
  [width |-> width, height |-> height, fullscreen |-> fullscreen]

LaunchOptionsPool ==
  {DefaultLaunchOptions,
   [DefaultLaunchOptions EXCEPT !.minMemory = Some(512), !.maxMemory = Some(2048)],
   [DefaultLaunchOptions EXCEPT !.maxMemory = Some(2048),
      !.extraJVMArgs = Some(<<ExtraString("-Dextra=1"), ExtraString("-Xmx2G")>>)],
   [DefaultLaunchOptions EXCEPT !.extraJVMArgs = Some(<<>>)],
   [DefaultLaunchOptions EXCEPT !.extraJVMArgs = Some(<<ExtraString("-Dextra=1"), ExtraNumber("1")>>)],
   [DefaultLaunchOptions EXCEPT !.ignoreInvalidMinecraftCertificates = TRUE,
      !.yggdrasilAgent = Some([jar |-> "agent.jar", server |-> "auth.example.org",
                               prefetched |-> ""])],
   [DefaultLaunchOptions EXCEPT !.gameName = Some("Cube"), !.gameIcon = Some("cube.icns"),
      !.logging = Some(<<"-Dlog4j.configurationFile=", "$", "{", "path", "}">>),
      !.logConfigExists = TRUE],
   [DefaultLaunchOptions EXCEPT !.indexIcon = Some("assets/objects/ab/abcd"),
      !.logging = Some(<<"-Dlog4j.configurationFile=", "$", "{", "path", "}">>)],
   [DefaultLaunchOptions EXCEPT !.resolution = Some(Resolution(None, None, TRUE))],
   [DefaultLaunchOptions EXCEPT !.resolution = Some(Resolution(Some(0), Some(600), FALSE)),
      !.server = Some([ip |-> "mc.example.org", port |-> None])],
   [DefaultLaunchOptions EXCEPT !.minMemory = Some(512), !.maxMemory = Some(1024),
      !.ignorePatchDiscrepancies = TRUE,
      !.yggdrasilAgent = Some([jar |-> "agent.jar", server |-> "auth.example.org",
                               prefetched |-> "abc"]),
      !.extraMCArgs = Some(<<"--demo">>),
      !.server = Some([ip |-> "mc.example.org", port |-> Some(25565)]),
      !.resolution = Some(Resolution(Some(800), Some(600), FALSE))]}

LaunchArgLists ==
  {[jvm |-> <<Str("-cp"), Str("${classpath}")>>,
    game |-> <<Str("--username"), Str("${auth_player_name}")>>],
   [jvm |-> <<>>,
    game |-> <<CondArr(<<AllowCustomRes>>, <<"--width", "${resolution_width}">>),
               Str("${version_type}")>>],
   [jvm |-> <<Cond(<<AllowWin10>>, "-Dos.version=10.0"), Str("-Xmx2G")>>,
    game |-> <<Str("net.minecraft.client.main.Main")>>]}

InitLaunch ==
  /\ rules = <<>>
  /\ featureList = {}
  /\ allow = None
  /\ platform \in Platforms
  /\ features \in FeatureMaps
  /\ versionArgs \in LaunchArgLists
  /\ launchArgs = None
  /\ launchOptions \in LaunchOptionsPool
  /\ argv = None
  /\ launchError = None
  /\ ResolverIdle
  /\ DiagnoseIdle
  /\ PureIdle

NextLaunch == generateArguments

SpecLaunch == InitLaunch /\ [][NextLaunch]_vars

\* the texts of the elements of cmd that the given steps pushed, in order
RECURSIVE textsFrom(_, _)
textsFrom(cmd, origins) ==
  IF cmd = <<>> THEN <<>>
  ELSE (IF Head(cmd).origin \in origins THEN <<Head(cmd).text>> ELSE <<>>)
       \o textsFrom(Tail(cmd), origins)

AllDefaults ==
  <<<<"-Xmx2G">>, <<"-XX:+UnlockExperimentalVMOptions">>, <<"-XX:+UseG1GC">>,
    <<"-XX:G1NewSizePercent=20">>, <<"-XX:G1ReservePercent=20">>,
    <<"-XX:MaxGCPauseMillis=50">>, <<"-XX:G1HeapRegionSize=32M">>>>

\* C16: with maxMemory set the argv contains -Xmx{maxMemory}M and the default
\* block contributes every default flag except -Xmx2G; with neither
\* maxMemory nor extraJVMArgs it contributes all seven defaults; with
\* extraJVMArgs an array of strings, that array is appended instead and no
\* default flag is emitted.
C16_MemoryAndExtraJvmArgs ==
  argv # None =>
    LET cmd == Get(argv)
        o == launchOptions
        defaults == textsFrom(cmd, {"default"})
    IN /\ o.maxMemory # None
            => /\ \E i \in 1..Len(cmd) :
                    cmd[i].text = <<"-Xmx", ToString(Get(o.maxMemory)), "M">>
               /\ \A i \in 1..Len(defaults) : defaults[i] # <<"-Xmx2G">>
               /\ o.extraJVMArgs = None => defaults = Tail(AllDefaults)
       /\ (o.maxMemory = None /\ o.extraJVMArgs = None) => defaults = AllDefaults
       /\ o.extraJVMArgs # None
            => /\ defaults = <<>>
               /\ textsFrom(cmd, {"extraJVM"})
                    = [i \in 1..Len(Get(o.extraJVMArgs)) |-> <<Get(o.extraJVMArgs)[i].str>>]

\* maxMemory is set and the default block is used
C16_Witness ==
  /\ argv # None
  /\ launchOptions.maxMemory # None
  /\ launchOptions.extraJVMArgs = None
  /\ Len(textsFrom(Get(argv), {"default"})) = 6

JvmSide == {"dock", "memory", "fml", "agent", "jvm", "extraJVM", "default"}
GameSide == {"game", "extraMC", "server", "resolution"}

\* C17: javaPath is element 0; the launcher-emitted flags, the interpolated
\* JVM arguments and the extra JVM arguments precede mainClass, which
\* precedes every interpolated game argument, extraMCArgs entry,
\* --server/--port and resolution flag.
C17_ArgvOrder ==
  argv # None =>
    LET cmd == Get(argv)
        mains == {i \in 1..Len(cmd) : cmd[i].origin = "mainClass"}
    IN /\ cmd[1] = Arg("javaPath", <<launchOptions.javaPath>>)
       /\ Cardinality(mains) = 1
       /\ \A m \in mains :
            /\ cmd[m].text = <<LaunchVersion.mainClass>>
            /\ \A i \in 1..Len(cmd) :
                 /\ cmd[i].origin \in JvmSide => 1 < i /\ i < m
                 /\ cmd[i].origin \in GameSide => m < i
                 /\ cmd[i].origin \in {"javaPath"} \cup JvmSide \cup GameSide \cup {"mainClass"}
                 /\ cmd[i].origin = "javaPath" => i = 1

\* an argv with elements of every kind on both sides of mainClass
C17_Witness ==
  /\ argv # None
  /\ \A origin \in {"dock", "memory", "fml", "agent", "jvm", "default",
                    "game", "extraMC", "server", "resolution"} :
       \E i \in 1..Len(Get(argv)) : Get(argv)[i].origin = origin

\* C6: a feature k is active in rule evaluation iff options.features[k] is
\* truthy: the normalised lists are those obtained with the set of keys
\* whose value is truthy as the active feature set.
C6_FeatureActiveIffTruthy ==
  \A r \in launchArgs :
    /\ r.jvm = flattenArgs(versionArgs.jvm, 1, platform, TruthyKeys(features))
    /\ r.game = flattenArgs(versionArgs.game, 1, platform, TruthyKeys(features))

(***************************************************************************)
(* Directory layout (part_000).  A path is the tuple of its segments.      *)
(***************************************************************************)
getVersionRoot(version) == <<"versions", version>>
getVersionJson(version) == <<"versions", version, version, ".json">>
getVersionJar(version) == <<"versions", version, version, ".jar">>
getLibraryByPath(libraryPath) == <<"libraries">> \o libraryPath
getAssetsIndex(versionAssets) == <<"assets", "indexes", versionAssets, ".json">>
getAsset(hash) == <<"assets", "objects", hash>>

(***************************************************************************)
(* Libraries.  A coordinate is the tuple of its ':'-separated segments     *)
(* <<group, artifact, version>> or <<group, artifact, version, classifier>>*)
(* (type 'jar').  A classifier is a tuple of pieces, <<>> for ''; the      *)
(* piece "${arch}" is the placeholder, and the characters of an arch are   *)
(* spliced in as one-character pieces.                                     *)
(***************************************************************************)
Artifact(path, sha1, size) == [path |-> path, sha1 |-> sha1, size |-> size]

\* part_001 50-71: LibraryInfo.resolve
libraryInfo(name) ==
  LET classifier == IF Len(name) >= 4 THEN name[4] ELSE <<>>
  IN [groupId |-> name[1], artifactId |-> name[2], version |-> name[3],
      classifier |-> classifier,
      path |-> <<name[1], name[2], name[3], classifier>>]

\* part_001 74-101
ResolvedLibrary(name, info, download, isNative) ==
  [name |-> name, groupId |-> info.groupId, artifactId |-> info.artifactId,
   version |-> info.version, classifier |-> info.classifier, path |-> info.path,
   download |-> download, isNative |-> isNative]

\* String.prototype.substring(1)
substring1(str) == IF Len(str) = 0 THEN <<>> ELSE Tail(str)

\* String.prototype.replace('${arch}', by): the first occurrence only
RECURSIVE replaceArch(_, _)
replaceArch(template, by) ==
  IF template = <<>> THEN <<>>
  ELSE IF Head(template) = "${arch}" THEN by \o Tail(template)
  ELSE <<Head(template)>> \o replaceArch(Tail(template), by)

\* classifier.startsWith('natives')
startsWithNatives(classifier) ==
  /\ classifier # <<>>
  /\ classifier[1] \in {"natives-linux", "natives-osx", "natives-windows", "natives-windows-"}

resolveLibraryIgnoringRules(lib, plat) ==
  IF lib.natives # None
  THEN LET natives == Get(lib.natives)
       IN IF plat.name \notin DOMAIN natives THEN None
          ELSE LET name == Append(lib.name, replaceArch(natives[plat.name], substring1(plat.arch)))
               IN Some(ResolvedLibrary(name, libraryInfo(name),
                                       Artifact(libraryInfo(name).path, "", -1), TRUE))
  ELSE Some(ResolvedLibrary(lib.name, libraryInfo(lib.name),
                            Artifact(libraryInfo(lib.name).path, lib.sha1, -1), FALSE))

\* part_001 363-407
resolveLibrary(lib, plat) ==
  IF lib.rules # None /\ ~checkAllowed(Get(lib.rules), plat, {}) THEN None
  ELSE IF lib.natives # None
  THEN LET natives == Get(lib.natives)
       IN IF plat.name \notin DOMAIN natives THEN None
          ELSE LET classifier == replaceArch(natives[plat.name], substring1(plat.arch))
                   name == Append(lib.name, classifier)
                   info == libraryInfo(name)
                   nativeArtifact ==
                     IF classifier \in DOMAIN lib.classifiers
                     THEN lib.classifiers[classifier]
                     ELSE Artifact(info.path, "", -1)
               IN Some(ResolvedLibrary(name, info, nativeArtifact, TRUE))
  ELSE LET info == libraryInfo(lib.name)
       IN IF lib.artifact # None
          THEN Some(ResolvedLibrary(lib.name, info, Get(lib.artifact),
                                    startsWithNatives(info.classifier)))
          ELSE Some(ResolvedLibrary(lib.name, info, Artifact(info.path, lib.sha1, -1), FALSE))

\* part_001 409-411
RECURSIVE resolveLibraries(_, _)
resolveLibraries(libs, plat) ==
  IF libs = <<>> THEN <<>>
  ELSE LET l == resolveLibrary(Head(libs), plat)
       IN (IF l = None THEN <<>> ELSE <<Get(l)>>) \o resolveLibraries(Tail(libs), plat)

(***************************************************************************)
(* normalizeVersionJson (part_001 413-482) on a parsed manifest.           *)
(***************************************************************************)
\* part_001 414-421
processArguments(ar, plat) ==
  LET keep(a) ==
        IF a.kind = "object" /\ \A i \in 1..Len(a.rules) : a.rules[i].features = None
        THEN checkAllowed(a.rules, plat, {})
        ELSE TRUE
  IN SelectSeq(ar, keep)

\* part_001 433-465: the jvm list given to a legacy manifest
LegacyJvm ==
  <<Cond(<<AllowWindows>>, "-XX:HeapDumpPath=MojangTricksIntelDriversForPerformance_javaw.exe_minecraft.exe.heapdump"),
    CondArr(<<AllowWin10>>, <<"-Dos.name=Windows 10", "-Dos.version=10.0">>),
    Str("-Djava.library.path=${natives_directory}"),
    Str("-Dminecraft.launcher.brand=${launcher_name}"),
    Str("-Dminecraft.launcher.version=${launcher_version}"),
    Str("-cp"),
    Str("${classpath}")>>

\* part_001 432: minecraftArguments.split(' '), the string given as its words;
\* every word becomes one plain string element ('' gives [])
split(words) == [i \in 1..Len(words) |-> Str(words[i])]

\* part_001 423-481
normalizeVersionJson(parsed, plat) ==
  LET legacyVersionJson == parsed.arguments = None
      jvm == IF legacyVersionJson THEN LegacyJvm ELSE Get(parsed.arguments).jvm
      game == IF legacyVersionJson THEN split(parsed.minecraftArguments)
              ELSE Get(parsed.arguments).game
  IN [id |-> parsed.id,
      inheritsFrom |-> parsed.inheritsFrom,
      mainClass |-> parsed.mainClass,
      downloads |-> parsed.downloads,
      assets |-> parsed.assets,
      assetIndex |-> parsed.assetIndex,
      libraries |-> resolveLibraries(parsed.libraries, plat),
      arguments |-> [jvm |-> processArguments(jvm, plat), game |-> game],
      replace |-> legacyVersionJson]

(***************************************************************************)
(* Version.resolve (part_001 147-245): the merge of a hierarchy, child     *)
(* first and root last.  A JavaScript object used as a map is the sequence *)
(* of its [key, value] entries in insertion order.                         *)
(***************************************************************************)
objectPut(map, key, value) ==
  IF \E i \in 1..Len(map) : map[i].key = key
  THEN [i \in 1..Len(map) |->
          IF map[i].key = key THEN [key |-> key, value |-> value] ELSE map[i]]
  ELSE Append(map, [key |-> key, value |-> value])

ObjectValues(map) == [i \in 1..Len(map) |-> map[i].value]

\* part_001 198-201: group:artifact, then -classifier; when there is one
libOrgName(lib) == <<lib.groupId, lib.artifactId, lib.classifier>>

mergeArgumentsAlwaysAppend(args, json) ==
  [game |-> args.game \o json.arguments.game, jvm |-> args.jvm \o json.arguments.jvm]

\* part_001 179-185
mergeArguments(args, json) ==
  IF ~json.replace
  THEN [game |-> args.game \o json.arguments.game, jvm |-> args.jvm \o json.arguments.jvm]
  ELSE [game |-> json.arguments.game, jvm |-> json.arguments.jvm]

mergeMainClassRootWins(mainClass, json) ==
  IF mainClass # "" THEN mainClass ELSE json.mainClass

\* part_001 192
mergeMainClass(mainClass, json) ==
  IF json.mainClass # "" THEN json.mainClass ELSE mainClass

mergeLibraryKeepFirst(maps, lib) ==
  LET has(m) == \E i \in 1..Len(m) : m[i].key = libOrgName(lib)
  IN IF lib.isNative
     THEN [maps EXCEPT !.nativesMap =
             IF has(@) THEN @ ELSE objectPut(@, libOrgName(lib), lib)]
     ELSE [maps EXCEPT !.librariesMap =
             IF has(@) THEN @ ELSE objectPut(@, libOrgName(lib), lib)]

mergeLibraryOneMap(maps, lib) ==
  [maps EXCEPT !.librariesMap = objectPut(@, libOrgName(lib), lib)]

\* part_001 197-207
mergeLibrary(maps, lib) ==
  IF lib.isNative
  THEN [maps EXCEPT !.nativesMap = objectPut(@, libOrgName(lib), lib)]
  ELSE [maps EXCEPT !.librariesMap = objectPut(@, libOrgName(lib), lib)]

RECURSIVE mergeLibraries(_, _)
mergeLibraries(maps, libs) ==
  IF libs = <<>> THEN maps
  ELSE mergeLibraries(mergeLibrary(maps, Head(libs)), Tail(libs))

\* part_001 209-213
RECURSIVE mergeDownloads(_, _)
mergeDownloads(downloadsMap, downloads) ==
  IF downloads = <<>> THEN downloadsMap
  ELSE mergeDownloads(objectPut(downloadsMap, Head(downloads).key, Head(downloads).value),
                      Tail(downloads))

\* part_001 175-213: one turn of the do-while loop
mergeOne(acc, json) ==
  LET maps == mergeLibraries([librariesMap |-> acc.librariesMap,
                              nativesMap |-> acc.nativesMap], json.libraries)
  IN [args |-> mergeArguments(acc.args, json),
      mainClass |-> mergeMainClass(acc.mainClass, json),
      assets |-> IF json.assets # "" THEN json.assets ELSE acc.assets,
      assetIndex |-> IF json.assetIndex # None THEN json.assetIndex ELSE acc.assetIndex,
      librariesMap |-> maps.librariesMap,
      nativesMap |-> maps.nativesMap,
      downloadsMap |-> mergeDownloads(acc.downloadsMap, json.downloads)]

\* part_001 173-214: hierarchy.pop() until the hierarchy is empty
RECURSIVE mergeChain(_, _, _)
mergeChain(hierarchy, n, acc) ==
  IF n = 0 THEN acc ELSE mergeChain(hierarchy, n - 1, mergeOne(acc, hierarchy[n]))

\* part_001 150-168: the accumulators before the loop
mergeStart(hierarchy) ==
  [args |-> [jvm |-> <<>>, game |-> <<>>],
   mainClass |-> "",
   assets |-> "",
   assetIndex |-> hierarchy[Len(hierarchy)].assetIndex,
   librariesMap |-> <<>>,
   nativesMap |-> <<>>,
   downloadsMap |-> <<>>]

merged(hierarchy) == mergeChain(hierarchy, Len(hierarchy), mergeStart(hierarchy))

\* part_001 216-224
resolveThrows(hierarchy) == merged(hierarchy).mainClass = ""

BadVersionJson(id) == [error |-> "BadVersionJson", version |-> id, missing |-> "MainClass"]

\* part_001 171
inheritancesOf(hierarchy) == [i \in 1..Len(hierarchy) |-> hierarchy[i].id]

\* part_001 170
chainsOf(hierarchy) == [i \in 1..Len(hierarchy) |-> getVersionRoot(hierarchy[i].id)]

\* part_001 226-244; downloads is Object.values(downloadsMap), an array
resolveResult(hierarchy) ==
  LET m == merged(hierarchy)
  IN [id |-> hierarchy[1].id,
      assetIndex |-> m.assetIndex,
      assets |-> m.assets,
      minecraftVersion |-> hierarchy[Len(hierarchy)].id,
      inheritances |-> inheritancesOf(hierarchy),
      arguments |-> m.args,
      downloads |-> ObjectValues(m.downloadsMap),
      libraries |-> ObjectValues(m.librariesMap) \o ObjectValues(m.nativesMap),
      mainClass |-> m.mainClass,
      pathChain |-> chainsOf(hierarchy)]

(***************************************************************************)
(* The manifests a version file can hold.  What a file holds besides id    *)
(* and inheritsFrom is fixed by its name, in a modern and a legacy form,   *)
(* with or without a mainClass.                                            *)
(***************************************************************************)
RawLib(name, rs, natives, classifiers, artifact, sha1) ==
  [name |-> name, rules |-> rs, natives |-> natives, classifiers |-> classifiers,
   artifact |-> artifact, sha1 |-> sha1]

EmptyMap == [k \in {} |-> 0]

Lwjgl(v) ==
  RawLib(<<"org.lwjgl", "lwjgl", v>>, None, None, EmptyMap,
         Some(Artifact(<<"org.lwjgl", "lwjgl", v, <<>>>>, "sha-lwjgl", 100)), "")
LwjglNatives(v) ==
  RawLib(<<"org.lwjgl", "lwjgl", v>>, None,
         Some([o \in {"linux", "windows"} |->
                 IF o = "linux" THEN <<"natives-linux">> ELSE <<"natives-windows-", "${arch}">>]),
         [c \in {<<"natives-linux">>} |->
            Artifact(<<"org.lwjgl", "lwjgl", v, c>>, "sha-natives", 200)],
         None, "")
LwjglNativesLegacy(v) ==
  RawLib(<<"org.lwjgl", "lwjgl", v, <<"natives-linux">>>>, None, None, EmptyMap, None, "sha-legacy")
Authlib(v) ==
  RawLib(<<"com.mojang", "authlib", v>>, None, None, EmptyMap, None, "")
OsxOnly ==
  RawLib(<<"ca.weblite", "java-objc-bridge", "1.0">>, Some(<<AllowAll, DisallowAll, Rule("allow", Some(Os(Some("osx"), None, None)), None)>>),
         None, EmptyMap, None, "")

\* a library whose downloads.artifact names no path (part_001 385-397 passes
\* the artifact on as it is)
Unpathed ==
  RawLib(<<"net.minecraftforge", "forge", "1.0">>, None, None, EmptyMap,
         Some(Artifact(<<>>, "sha-forge", 10)), "")

LibsOf(f) ==
  CASE f = "A" -> <<Lwjgl("3.3.1"), LwjglNatives("3.3.1"), Authlib("3.0")>>
    [] f = "B" -> <<Lwjgl("2.9.4"), LwjglNativesLegacy("2.9.4"), OsxOnly>>
    [] f = "C" -> <<LwjglNatives("2.9.0"), Authlib("1.0"), Authlib("2.0")>>

ModernArgsOf(f) ==
  CASE f = "A" -> [jvm |-> <<Str("-Djvm.A"), Cond(<<AllowLinux>>, "-Dlinux.A")>>,
                   game |-> <<Str("--game.A")>>]
    [] f = "B" -> [jvm |-> <<Str("-Djvm.B"), Cond(<<AllowDemo>>, "-Ddemo.B"),
                             Cond(<<DisallowOsx, AllowDemo>>, "-Dmixed.B")>>,
                   game |-> <<Str("--game.B"), Cond(<<AllowDemo>>, "--demo")>>]
    [] f = "C" -> [jvm |-> <<Cond(<<AllowWindows>>, "-Dwindows.C"), Str("-cp")>>,
                   game |-> <<Str("--game.C")>>]

LegacyArgsOf(f) ==
  CASE f = "A" -> <<"--username", "${auth_player_name}", "--tweakClass", "legacy.A">>
    [] f = "B" -> <<"--username", "${auth_player_name}">>
    [] f = "C" -> <<>>

DownloadsOf(f) ==
  CASE f = "A" -> <<>>
    [] f = "B" -> <<[key |-> "client", value |-> Artifact(<<>>, "sha-client-B", 10)],
                    [key |-> "server", value |-> Artifact(<<>>, "sha-server-B", 20)]>>
    [] f = "C" -> <<[key |-> "client", value |-> Artifact(<<>>, "sha-client-C", 30)]>>

Manifest(f, id, inheritsFrom, legacy, hasMain) ==
  [id |-> id,
   inheritsFrom |-> inheritsFrom,
   arguments |-> IF legacy THEN None ELSE Some(ModernArgsOf(f)),
   minecraftArguments |-> IF legacy THEN LegacyArgsOf(f) ELSE <<>>,
   mainClass |-> IF hasMain THEN f ELSE "",
   libraries |-> LibsOf(f),
   downloads |-> DownloadsOf(f),
   assets |-> IF f = "A" THEN "" ELSE f,
   assetIndex |-> IF f = "A" THEN None ELSE Some([id |-> f, sha1 |-> "sha-index"])]

MissingFile == [state |-> "missing", json |-> None]
CorruptedFile == [state |-> "corrupted", json |-> None]
JsonFile(m) == [state |-> "json", json |-> Some(m)]

FileContents(f) ==
  {MissingFile, CorruptedFile} \cup
  {JsonFile(Manifest(f, id, inh, legacy, hasMain)) :
     id \in FileNames, inh \in {None} \cup {Some(n) : n \in FileNames},
     legacy \in BOOLEAN, hasMain \in BOOLEAN}

(***************************************************************************)
(* Version.resolveDependency (part_001 312-361) and Version.parse.         *)
(***************************************************************************)
WalkError(kind, version, chain) == [error |-> kind, version |-> version, chain |-> chain]

stackIds(stk) == [i \in 1..Len(stk) |-> stk[i].id]

onStackBelowTop(stk, nextVersion) == \E i \in 1..(Len(stk) - 1) : stk[i].id = nextVersion

\* part_001 347: stack.some((v) => v.id === nextVersion)
onStack(stk, nextVersion) == \E i \in 1..Len(stk) : stk[i].id = nextVersion

\* part_001 352
circularChain(stk, nextVersion) == Append(stackIds(stk), nextVersion)

InitResolve ==
  /\ rules = <<>>
  /\ featureList = {}
  /\ allow = None
  /\ features = <<>>
  /\ versionArgs = [jvm |-> <<>>, game |-> <<>>]
  /\ launchArgs = None
  /\ LaunchRestIdle
  /\ platform \in Platforms
  /\ target \in FileNames
  /\ versionName = target
  /\ versionFiles = [f \in FileNames |-> Unread]
  /\ stack = <<>>
  /\ loaded = <<>>
  /\ walkPc = "walk"
  /\ walkError = None
  /\ resolved = None
  /\ resolveError = None
  /\ DiagnoseIdle
  /\ PureIdle

\* part_001 316-357: one call of walk(versionName) on the content its file
\* shows: what it pushes, and whether it throws, calls walk again or returns
walkCall(content, stk, name, tgt, plat) ==
  IF content.state = "missing"
  THEN [pc |-> "threw", error |-> Some(WalkError("MissingVersionJson", name, <<>>)),
        stack |-> stk, next |-> name]
  ELSE IF content.state = "corrupted"
  THEN [pc |-> "threw", error |-> Some(WalkError("CorruptedVersionJson", name, <<>>)),
        stack |-> stk, next |-> name]
  ELSE LET versionJson == normalizeVersionJson(Get(content.json), plat)
           nextVersion == versionJson.inheritsFrom
           pushed == Append(stk, versionJson)
       IN IF nextVersion # None
          THEN IF onStack(pushed, Get(nextVersion))
               THEN [pc |-> "threw",
                     error |-> Some(WalkError("CircularDependenciesError", tgt,
                                              circularChain(pushed, Get(nextVersion)))),
                     stack |-> pushed, next |-> name]
               ELSE [pc |-> "walk", error |-> None, stack |-> pushed,
                     next |-> Get(nextVersion)]
          ELSE [pc |-> "returned", error |-> None, stack |-> pushed, next |-> name]

\* The file shows the content an earlier read of it showed; a file read for
\* the first time shows any content a version file can hold.
Walk ==
  /\ walkPc = "walk"
  /\ Len(stack) < MaxStack
  /\ \E content \in FileContents(versionName) :
       /\ versionFiles[versionName] \in {Unread, content}
       /\ versionFiles' = [versionFiles EXCEPT ![versionName] = content]
       /\ LET o == walkCall(content, stack, versionName, target, platform)
          IN /\ walkPc' = o.pc
             /\ walkError' = o.error
             /\ stack' = o.stack
             /\ versionName' = o.next
             /\ loaded' = IF Len(o.stack) > Len(stack) THEN Append(loaded, versionName)
                          ELSE loaded
  /\ UNCHANGED <<pureVars, ruleVars, launchVars, diagVars, platform, target, resolved, resolveError>>

\* part_001 141-145 and 147-245: parse hands the stack to resolve, which
\* pops it empty and returns the ResolvedVersion or throws BadVersionJson
Resolve ==
  /\ walkPc = "returned"
  /\ resolved = None /\ resolveError = None
  /\ IF resolveThrows(stack)
     THEN /\ resolveError' = Some(BadVersionJson(stack[1].id))
          /\ UNCHANGED resolved
     ELSE /\ resolved' = Some(resolveResult(stack))
          /\ UNCHANGED resolveError
  /\ stack' = <<>>
  /\ UNCHANGED <<pureVars, ruleVars, launchVars, diagVars, platform, versionFiles, target,
                 versionName, loaded, walkPc, walkError>>

NextResolve == Walk \/ Resolve

SpecResolve == InitResolve /\ [][NextResolve]_vars

\* the normalised manifests of the chain, child first, as they were pushed
chainOf(files) ==
  [i \in 1..Len(files) |-> normalizeVersionJson(Get(versionFiles[files[i]].json), platform)]

Last(q) == q[Len(q)]

MinOf(S) == CHOOSE i \in S : \A j \in S : i <= j

RECURSIVE argsDownFrom(_, _)
argsDownFrom(chain, k) ==
  IF k = 0 THEN [jvm |-> <<>>, game |-> <<>>]
  ELSE LET rest == argsDownFrom(chain, k - 1)
       IN [jvm |-> chain[k].arguments.jvm \o rest.jvm,
           game |-> chain[k].arguments.game \o rest.game]

\* C2: the resolved arguments are the normalised lists of the chain from
\* the legacy (replace) manifest nearest the child, or from the root when
\* there is none, down to the child, concatenated in that order; for a
\* two-manifest chain that is C's lists alone when C is legacy and P's
\* followed by C's when neither is legacy.
C2_ArgumentsMerge ==
  \A r \in resolved :
    LET chain == chainOf(loaded)
        n == Len(chain)
        P == chain[n]
        C == chain[1]
        legacy == {i \in 1..n : chain[i].replace}
        from == IF legacy = {} THEN n ELSE MinOf(legacy)
    IN /\ r.arguments = argsDownFrom(chain, from)
       /\ (n = 2 /\ C.replace) => r.arguments = C.arguments
       /\ (n = 2 /\ ~C.replace /\ ~P.replace) =>
            /\ r.arguments.jvm = P.arguments.jvm \o C.arguments.jvm
            /\ r.arguments.game = P.arguments.game \o C.arguments.game

\* a three-manifest chain: modern root, legacy middle, modern child
C2_Witness ==
  /\ resolved # None
  /\ Len(loaded) = 3
  /\ LET chain == chainOf(loaded)
     IN /\ ~chain[1].replace /\ chain[2].replace /\ ~chain[3].replace
        /\ chain[3].arguments.game # <<>>
        /\ chain[2].arguments.game # <<>>
        /\ Get(resolved).arguments.game = chain[2].arguments.game \o chain[1].arguments.game

\* the same merge key in the same one of the two maps
sameKey(a, b) ==
  /\ a.groupId = b.groupId
  /\ a.artifactId = b.artifactId
  /\ a.classifier = b.classifier
  /\ a.isNative = b.isNative

\* C3: for every library a member of the chain defines, the resolved list
\* holds exactly one entry with its key (group:artifact, with the
\* classifier, among the natives resp. the non-natives), and that entry is
\* the library of the member nearest the child that defines the key (the
\* last one in that member's list), for a chain of any length.
C3_ChildLibraryWins ==
  \A r \in resolved :
    LET chain == chainOf(loaded)
    IN \A i \in 1..Len(chain) : \A j \in 1..Len(chain[i].libraries) :
         LET lib == chain[i].libraries[j]
             hits == {x \in 1..Len(r.libraries) : sameKey(r.libraries[x], lib)}
             defines(m) == {y \in 1..Len(chain[m].libraries) :
                              sameKey(chain[m].libraries[y], lib)}
             nearest == MinOf({m \in 1..Len(chain) : defines(m) # {}})
         IN /\ Cardinality(hits) = 1
            /\ \A x \in hits :
                 r.libraries[x] = chain[nearest].libraries[MaxOf(defines(nearest))]

\* child A and parent B both define org.lwjgl:lwjgl; the child's 3.3.1 is listed
C3_Witness ==
  /\ loaded = <<"A", "B">>
  /\ \E r \in resolved :
       /\ \E x \in 1..Len(r.libraries) :
            /\ r.libraries[x].artifactId = "lwjgl"
            /\ r.libraries[x].classifier = <<>>
            /\ r.libraries[x].version = "3.3.1"
       /\ \E y \in 1..Len(chainOf(loaded)[2].libraries) :
            /\ chainOf(loaded)[2].libraries[y].artifactId = "lwjgl"
            /\ chainOf(loaded)[2].libraries[y].classifier = <<>>
            /\ chainOf(loaded)[2].libraries[y].version = "2.9.4"

\* Version.resolve has run on the stack the walk returned
resolveDone == walkPc = "returned" /\ stack = <<>>

\* C7: resolve returns a ResolvedVersion only with a non-empty mainClass,
\* that of the chain member nearest the child that defines one; when no
\* member defines a mainClass it throws BadVersionJson with the child's id
\* and missing = MainClass, and returns nothing.
C7_MainClass ==
  LET chain == chainOf(loaded)
      defining == {i \in 1..Len(chain) : chain[i].mainClass # ""}
  IN /\ \A r \in resolved :
          /\ r.mainClass # ""
          /\ defining # {}
          /\ r.mainClass = chain[MinOf(defining)].mainClass
     /\ resolveDone =>
          IF defining = {}
          THEN /\ resolved = None
               /\ resolveError = Some([error |-> "BadVersionJson",
                                       version |-> chain[1].id,
                                       missing |-> "MainClass"])
          ELSE resolved # None /\ resolveError = None
     /\ resolveError # None => resolveDone

\* child without mainClass, parent and root with one: the parent's is taken
C7_Witness ==
  /\ Len(loaded) = 3
  /\ LET chain == chainOf(loaded)
     IN /\ chain[1].mainClass = ""
        /\ chain[2].mainClass # ""
        /\ chain[3].mainClass # ""
        /\ chain[2].mainClass # chain[3].mainClass
        /\ \E r \in resolved : r.mainClass = chain[2].mainClass

\* C8: for every ResolvedVersion, id is the child's id, inheritances is
\* the sequence of chain ids from child to root with no id occurring twice,
\* and pathChain has the same length with pathChain[i] the version root of
\* inheritances[i], whatever the relation of ids and file names.
C8_InheritancesAndPathChain ==
  \A r \in resolved :
    LET chain == chainOf(loaded)
    IN /\ r.id = chain[1].id
       /\ r.inheritances = [i \in 1..Len(chain) |-> chain[i].id]
       /\ \A i, j \in 1..Len(r.inheritances) :
            r.inheritances[i] = r.inheritances[j] => i = j
       /\ Len(r.pathChain) = Len(r.inheritances)
       /\ \A i \in 1..Len(r.pathChain) :
            r.pathChain[i] = getVersionRoot(r.inheritances[i])

\* the manifest in file f is in the legacy form: a minecraftArguments
\* string and no arguments object
legacyForm(f) == Get(versionFiles[f].json).arguments = None

\* C18: resolving a chain in which one manifest is legacy and another is
\* modern fails with an error instead of returning a ResolvedVersion.
C18_MixedChainFails ==
  resolved # None
  => \A i, j \in 1..Len(loaded) : legacyForm(loaded[i]) = legacyForm(loaded[j])

\* the jvm and game lists normalizeVersionJson starts from for the manifest
\* in file f: the built-in jvm list and the words of minecraftArguments for
\* a legacy manifest
argumentsGiven(f) ==
  LET raw == Get(versionFiles[f].json)
  IN IF raw.arguments = None
     THEN [jvm |-> LegacyJvm,
           game |-> [i \in 1..Len(raw.minecraftArguments) |-> Str(raw.minecraftArguments[i])]]
     ELSE Get(raw.arguments)

\* the rules of a conditional object hold a feature predicate
hasFeaturePredicate(a) == \E i \in 1..Len(a.rules) : a.rules[i].features # None

\* OS-only rules allow the platform: the list is empty, or the last rule
\* that applies is an allow
osRulesAllow(rs, plat) ==
  \/ Len(rs) = 0
  \/ LET hits == Applicable(rs, plat, {})
     IN hits # {} /\ rs[MaxOf(hits)].action = "allow"

\* C24: the jvm list of every normalised manifest is the given jvm list
\* without the conditional objects that hold a feature predicate and
\* without the OS-only conditional objects whose rules do not allow the
\* target platform; plain strings are kept; the game list is as given.
C24_JvmArgumentsFiltered ==
  \A i \in 1..Len(stack) :
    LET given == argumentsGiven(loaded[i])
        keep(a) == \/ a.kind = "string"
                   \/ a.kind = "object" /\ ~hasFeaturePredicate(a)
                        /\ osRulesAllow(a.rules, platform)
    IN /\ stack[i].arguments.jvm = SelectSeq(given.jvm, keep)
       /\ stack[i].arguments.game = given.game

\* the libraries of the normalised manifests of the chain
chainLibraries ==
  UNION {{chainOf(loaded)[i].libraries[j] : j \in 1..Len(chainOf(loaded)[i].libraries)} :
         i \in 1..Len(loaded)}

\* the same group:artifact and classifier
sameOrgName(a, b) ==
  a.groupId = b.groupId /\ a.artifactId = b.artifactId /\ a.classifier = b.classifier

\* C25: in the library list of a ResolvedVersion no native library precedes
\* a non-native one, and when members of the chain define a native and a
\* non-native library with the same group:artifact and classifier, the list
\* holds a native and a non-native entry with it.
C25_NativesAfterAndApart ==
  \A r \in resolved :
    /\ \A x, y \in 1..Len(r.libraries) :
         (r.libraries[x].isNative /\ ~r.libraries[y].isNative) => y < x
    /\ \A a, b \in chainLibraries :
         (a.isNative /\ ~b.isNative /\ sameOrgName(a, b))
         => /\ \E x \in 1..Len(r.libraries) :
                 r.libraries[x].isNative /\ sameOrgName(r.libraries[x], a)
            /\ \E y \in 1..Len(r.libraries) :
                 ~r.libraries[y].isNative /\ sameOrgName(r.libraries[y], b)

\* the child defines native org.lwjgl:lwjgl natives-linux and its parent a
\* non-native library with the same group:artifact and classifier
C25_Witness ==
  /\ Len(loaded) = 2
  /\ \E r \in resolved :
       \E a \in {chainOf(loaded)[1].libraries[j] : j \in 1..Len(chainOf(loaded)[1].libraries)} :
         \E b \in {chainOf(loaded)[2].libraries[j] : j \in 1..Len(chainOf(loaded)[2].libraries)} :
           /\ a.isNative /\ ~b.isNative /\ sameOrgName(a, b)
           /\ \E x, y \in 1..Len(r.libraries) :
                r.libraries[x] = a /\ r.libraries[y] = b /\ y < x

\* C30: the dependency walk reads no manifest file more than once and so
\* ends after at most as many reads as there are files; when it fails, it
\* fails with MissingVersionJson, CorruptedVersionJson or
\* CircularDependenciesError.
C30_WalkReadsEachFileOnce ==
  /\ \A i, j \in 1..Len(loaded) : loaded[i] = loaded[j] => i = j
  /\ \A e \in walkError :
       e.error \in {"MissingVersionJson", "CorruptedVersionJson", "CircularDependenciesError"}

\* the raw library entries of the manifests the walk has loaded
rawLibrariesLoaded ==
  UNION {{Get(versionFiles[loaded[i]].json).libraries[j] :
            j \in 1..Len(Get(versionFiles[loaded[i]].json).libraries)} :
         i \in 1..Len(loaded)}

\* the rules of a raw library disallow it on the platform: the list is not
\* empty and the last rule that applies is not an allow, or none applies
disallowedByRules(raw, plat) ==
  \E rs \in raw.rules :
    /\ Len(rs) > 0
    /\ LET hits == Applicable(rs, plat, {})
       IN hits = {} \/ rs[MaxOf(hits)].action # "allow"

\* a native library whose natives map has no entry for the platform name
nativesUnmapped(raw, plat) ==
  \E natives \in raw.natives : plat.name \notin DOMAIN natives

\* the resolved library l carries the coordinate of the raw entry: its name,
\* followed by the natives classifier for an entry with a natives map
resolvedFrom(l, raw) ==
  IF raw.natives = None THEN l.name = raw.name
  ELSE Len(l.name) = Len(raw.name) + 1 /\ SubSeq(l.name, 1, Len(raw.name)) = raw.name

C21_WitnessNatives ==
  /\ resolved # None
  /\ \E raw \in rawLibrariesLoaded : nativesUnmapped(raw, platform)

(***************************************************************************)
(* resolveLibrary on one library entry and one platform.                   *)
(***************************************************************************)
WinArm == [name |-> "windows", version |-> <<"1", "0", ".", "0">>, arch |-> <<"a", "r", "m", "6", "4">>]
WinIa32 == [name |-> "windows", version |-> <<"6", ".", "1">>, arch |-> <<"i", "a", "3", "2">>]
Win10x64 == [name |-> "windows", version |-> <<"1", "0", ".", "0">>, arch |-> <<"x", "6", "4">>]

LibraryPlatforms == Platforms \cup {WinArm, WinIa32, Win10x64}

\* a native whose osx classifier has the arch placeholder in the middle
NativesArch(v) ==
  RawLib(<<"org.lwjgl", "glfw", v>>, None,
         Some([o \in {"osx", "windows"} |->
                 IF o = "osx" THEN <<"natives-osx-", "${arch}", "-v2">>
                 ELSE <<"natives-windows-", "${arch}">>]),
         EmptyMap, None, "")

LibraryPool ==
  UNION {{Lwjgl(v), LwjglNatives(v), LwjglNativesLegacy(v), Authlib(v), NativesArch(v)} :
           v \in {"2.9.4", "3.3.1"}}
  \cup {OsxOnly, Unpathed}

InitLibrary ==
  /\ rules = <<>>
  /\ featureList = {}
  /\ allow = None
  /\ platform \in LibraryPlatforms
  /\ features = <<>>
  /\ versionArgs = [jvm |-> <<>>, game |-> <<>>]
  /\ launchArgs = None
  /\ LaunchRestIdle
  /\ ResolverIdle
  /\ DiagnoseIdle
  /\ FormatIdle
  /\ rawLib \in LibraryPool
  /\ resolvedLib = None
  /\ CoordinateIdle
  /\ UnzipIdle

\* part_001 363-407
ResolveLibrary ==
  /\ resolvedLib = None
  /\ resolvedLib' = Some(resolveLibrary(rawLib, platform))
  /\ UNCHANGED <<unzipVars, ruleVars, launchVars, resolverVars, diagVars, platform, formatTemplate,
                 formatArgs, formatted, rawLib, coordinate, resolvedInfo, pathInfo>>

NextLibrary == ResolveLibrary

SpecLibrary == InitLibrary /\ [][NextLibrary]_vars

\* platform.arch with a single leading 'x' removed and nothing else changed
archWithoutLeadingX(arch) == IF arch # <<>> /\ arch[1] = "x" THEN Tail(arch) ELSE arch

\* the classifier template with its first ${arch} replaced by the given text
RECURSIVE withArch(_, _)
withArch(classifier, text) ==
  IF classifier = <<>> THEN <<>>
  ELSE IF Head(classifier) = "${arch}" THEN text \o Tail(classifier)
  ELSE <<Head(classifier)>> \o withArch(Tail(classifier), text)

\* C19: the ${arch} placeholder of a native classifier is replaced by
\* platform.arch with a single leading 'x' removed and nothing else changed
\* (x64 gives 64, x86 gives 86, arm64 and ia32 stay as they are).
C19_ArchPlaceholder ==
  (/\ resolvedLib # None
   /\ Get(resolvedLib) # None
   /\ rawLib.natives # None)
  => Get(Get(resolvedLib)).classifier
       = withArch(Get(rawLib.natives)[platform.name], archWithoutLeadingX(platform.arch))

(***************************************************************************)
(* LibraryInfo.resolve and LibraryInfo.resolveFromPath (part_001 11-71) on *)
(* strings given character by character.                                   *)
(***************************************************************************)
\* String.prototype.split(sep) for a one-character separator
RECURSIVE splitOn(_, _)
splitOn(str, sep) ==
  LET at == {i \in 1..Len(str) : str[i] = sep}
  IN IF at = {} THEN <<str>>
     ELSE LET i == CHOOSE k \in at : \A l \in at : k <= l
          IN <<SubSeq(str, 1, i - 1)>> \o splitOn(SubSeq(str, i + 1, Len(str)), sep)

\* Array.prototype.join(sep) on strings
RECURSIVE joinWith(_, _)
joinWith(parts, sep) ==
  IF parts = <<>> THEN <<>>
  ELSE IF Len(parts) = 1 THEN parts[1]
  ELSE parts[1] \o <<sep>> \o joinWith(Tail(parts), sep)

\* String.prototype.replace(/\./g, '/')
dotsToSlashes(str) == [i \in 1..Len(str) |-> IF str[i] = "." THEN "/" ELSE str[i]]

startsWith(str, prefix) ==
  Len(prefix) <= Len(str) /\ SubSeq(str, 1, Len(prefix)) = prefix

endsWith(str, suffix) ==
  Len(suffix) <= Len(str) /\ SubSeq(str, Len(str) - Len(suffix) + 1, Len(str)) = suffix

\* String.prototype.substring(start, end): both clamped to 0..length, swapped
\* if start > end
substring(str, start, end) ==
  LET clamp(n) == IF n < 0 THEN 0 ELSE IF n > Len(str) THEN Len(str) ELSE n
      lo == IF clamp(start) <= clamp(end) THEN clamp(start) ELSE clamp(end)
      hi == IF clamp(start) <= clamp(end) THEN clamp(end) ELSE clamp(start)
  IN SubSeq(str, lo + 1, hi)

\* path.extname of a file name: from its last '.', '' if there is none or it
\* is the first character
extname(file) ==
  LET dots == {i \in 1..Len(file) : file[i] = "."}
  IN IF dots = {} THEN <<>>
     ELSE LET i == CHOOSE k \in dots : \A l \in dots : l <= k
          IN IF i = 1 THEN <<>> ELSE SubSeq(file, i, Len(file))

Jar == <<"j", "a", "r">>
Zip == <<"z", "i", "p">>
Snapshot == <<"-", "S", "N", "A", "P", "S", "H", "O", "T">>

\* part_001 50-71 (the coordinate has at least group, artifact and version)
resolve(name) ==
  LET atParts == splitOn(name, "@")
      type == IF Len(atParts) >= 2 THEN atParts[2] ELSE Jar
      colonParts == splitOn(atParts[1], ":")
      groupId == colonParts[1]
      artifactId == colonParts[2]
      version == colonParts[3]
      classifier == IF Len(colonParts) >= 4 THEN colonParts[4] ELSE <<>>
      base == dotsToSlashes(groupId) \o <<"/">> \o artifactId \o <<"/">> \o version
                \o <<"/">> \o artifactId \o <<"-">> \o version
                \o (IF classifier # <<>> THEN <<"-">> \o classifier ELSE <<>>)
  IN [type |-> type, groupId |-> groupId, artifactId |-> artifactId, version |-> version,
      name |-> name, isSnapshot |-> endsWith(version, Snapshot),
      classifier |-> classifier, path |-> base \o <<".">> \o type]

\* part_001 24-28: the classifier cut out of the file name
classifierOf(file, version, filePrefix, ext, isSnapshot) ==
  LET cut == substring(file, IF isSnapshot THEN Len(version) ELSE Len(filePrefix),
                       Len(file) - Len(ext))
  IN IF startsWith(cut, <<"-">>) THEN Tail(cut) ELSE cut

\* part_001 30-36
nameOf(groupId, artifactId, version, classifier, type) ==
  groupId \o <<":">> \o artifactId \o <<":">> \o version
    \o (IF classifier # <<>> THEN <<":">> \o classifier ELSE <<>>)
    \o (IF type # Jar THEN <<"@">> \o type ELSE <<>>)

\* part_001 11-48 (the path has at least group, artifact, version and file)
resolveFromPath(path) ==
  LET parts == splitOn(path, "/")
      file == parts[Len(parts)]
      version == parts[Len(parts) - 1]
      artifactId == parts[Len(parts) - 2]
      groupId == joinWith(SubSeq(parts, 1, Len(parts) - 3), ".")
      ext == extname(file)
      type == substring(ext, 1, Len(ext))
      isSnapshot == startsWith(file, version)
      classifier == classifierOf(file, version, artifactId \o <<"-">> \o version, ext,
                                 isSnapshot)
  IN [type |-> type, groupId |-> groupId, artifactId |-> artifactId, version |-> version,
      classifier |-> classifier,
      name |-> nameOf(groupId, artifactId, version, classifier, type),
      path |-> path, isSnapshot |-> isSnapshot]

\* the parts of a coordinate g:a:v[:cl][@t]
Coordinates ==
  [g : {<<"g">>, <<"o", ".", "l">>},
   a : {<<"a">>, <<"a", "-", "b">>},
   v : {<<"1">>, <<"1", ".", "2">>},
   cl : {None, Some(<<"n">>), Some(<<"n", "-", "x">>)},
   t : {None, Some(Jar), Some(Zip)}]

\* the coordinate string
coordinateString(c) ==
  c.g \o <<":">> \o c.a \o <<":">> \o c.v
    \o (IF c.cl # None THEN <<":">> \o Get(c.cl) ELSE <<>>)
    \o (IF c.t # None THEN <<"@">> \o Get(c.t) ELSE <<>>)

InitCoordinate ==
  /\ rules = <<>>
  /\ featureList = {}
  /\ allow = None
  /\ platform = Linux64
  /\ features = <<>>
  /\ versionArgs = [jvm |-> <<>>, game |-> <<>>]
  /\ launchArgs = None
  /\ LaunchRestIdle
  /\ ResolverIdle
  /\ DiagnoseIdle
  /\ FormatIdle
  /\ LibraryIdle
  /\ coordinate \in Coordinates
  /\ resolvedInfo = None
  /\ pathInfo = None
  /\ UnzipIdle

\* part_001 50-71
LibraryInfoResolve ==
  /\ resolvedInfo = None
  /\ resolvedInfo' = Some(resolve(coordinateString(coordinate)))
  /\ UNCHANGED <<unzipVars, ruleVars, launchVars, resolverVars, diagVars, platform, formatTemplate,
                 formatArgs, formatted, rawLib, resolvedLib, coordinate, pathInfo>>

\* part_001 11-48
LibraryInfoResolveFromPath ==
  /\ resolvedInfo # None
  /\ pathInfo = None
  /\ pathInfo' = Some(resolveFromPath(Get(resolvedInfo).path))
  /\ UNCHANGED <<unzipVars, ruleVars, launchVars, resolverVars, diagVars, platform, formatTemplate,
                 formatArgs, formatted, rawLib, resolvedLib, coordinate, resolvedInfo>>

NextCoordinate == LibraryInfoResolve \/ LibraryInfoResolveFromPath

SpecCoordinate == InitCoordinate /\ [][NextCoordinate]_vars

\* {g with dots as slashes}/{a}/{v}/{a}-{v}[-{cl}].{t}
canonicalPath(c) ==
  [i \in 1..Len(c.g) |-> IF c.g[i] = "." THEN "/" ELSE c.g[i]]
    \o <<"/">> \o c.a \o <<"/">> \o c.v \o <<"/">> \o c.a \o <<"-">> \o c.v
    \o (IF c.cl # None THEN <<"-">> \o Get(c.cl) ELSE <<>>)
    \o <<".">> \o (IF c.t # None THEN Get(c.t) ELSE Jar)

\* C20: for every non-snapshot coordinate c = g:a:v[:cl][@t] (t any type,
\* an explicit @jar included), resolve(c).path is the canonical path and
\* resolveFromPath(resolve(c).path).name equals c.
C20_CoordinateRoundTrip ==
  /\ resolvedInfo # None => Get(resolvedInfo).path = canonicalPath(coordinate)
  /\ pathInfo # None => Get(pathInfo).name = coordinateString(coordinate)

(***************************************************************************)
(* The diagnoser (diagnose.js).                                            *)
(***************************************************************************)
Issue(type, role, file, expectedChecksum, receivedChecksum, hint) ==
  [type |-> type, role |-> role, file |-> file, expectedChecksum |-> expectedChecksum,
   receivedChecksum |-> receivedChecksum, hint |-> hint]

HintOf(role) ==
  CASE role = "library" ->
         "Problem on library! Please consider to use Installer.installLibraries to fix."
    [] role = "minecraftJar" ->
         "Problem on Minecraft jar! Please consider to use Installer.instalVersion to fix."
    [] role = "assetIndex" ->
         "Problem on assets index file! Please consider to use Installer.installAssets to fix."
    [] role = "asset" ->
         "Problem on asset! Please consider to use Installer.installAssets to fix."
    [] OTHER -> "Re-install the minecraft!"

\* an installed file: whether it exists, its digest, its size, and whether
\* it parses as JSON
Absent == [exists |-> FALSE, digest |-> "", size |-> -1, parsable |-> FALSE]
File(digest, size) == [exists |-> TRUE, digest |-> digest, size |-> size, parsable |-> TRUE]

\* the file as it was installed
Genuine(file) ==
  IF file = getVersionJar("C") THEN File("sha-client-C", 30)
  ELSE IF file = getAssetsIndex("C") THEN File("sha-index", 40)
  ELSE IF file = getAsset("h1") THEN File("h1", 5)
  ELSE IF file = getAsset("h2") THEN File("h2", 6)
  ELSE IF file[1] = "libraries" /\ file[3] = "lwjgl"
  THEN (IF file[5] = <<>> THEN File("sha-lwjgl", 100) ELSE File("sha-natives", 200))
  ELSE File("sha-authlib", 50)

Damaged(file, sizeDelta) ==
  [exists |-> TRUE, digest |-> "sha-damaged", size |-> Genuine(file).size + sizeDelta,
   parsable |-> FALSE]

\* what a file can show when it is first looked at: absent, as installed,
\* or damaged with the same or (where a check compares sizes) another size
DiskStates(file) ==
  {Absent, Genuine(file), Damaged(file, 0)} \cup
  (IF file[1] = "versions" \/ file[2] = "indexes" THEN {} ELSE {Damaged(file, 1)})

\* the objects of a genuine asset index, in key order
IndexObjects ==
  <<[name |-> "icons/icon.png", hash |-> "h1", size |-> 5],
    [name |-> "lang/en.json", hash |-> "h2", size |-> 6]>>

\* options && options.signal && signal.aborted, for a callee given the options
signalAborted(passed) == passed /\ options.given /\ options.signal /\ aborted

\* one check: diagnoseFile (12-45), preceded for a strict library and a
\* non-strict asset by the stat step of its caller (112-115, 160-162)
Task(role, file, expectedChecksum, statRule, declaredSize, passOptions) ==
  [role |-> role, file |-> file, expectedChecksum |-> expectedChecksum,
   statRule |-> statRule, declaredSize |-> declaredSize, passOptions |-> passOptions,
   phase |-> IF statRule = "none" THEN "exists" ELSE "stat",
   called |-> statRule = "none",   \* diagnoseFile has been called
   fileExisted |-> FALSE, receivedChecksum |-> "", result |-> None]

finish(t, result) == [t EXCEPT !.phase = "done", !.result = result]

afterStatUnknownSizeDiffers(t, st, sig) ==
  LET realSize == IF st.exists THEN st.size ELSE -1
  IN IF sig THEN finish(t, None)
     ELSE IF realSize # t.declaredSize THEN [t EXCEPT !.phase = "exists", !.called = TRUE]
     ELSE finish(t, None)

\* diagnose.js 113-115 and 160-162: stat, poll the signal, compare the sizes
afterStat(t, st, sig) ==
  LET realSize == IF st.exists THEN st.size ELSE -1
      differs == IF t.statRule = "library"
                 THEN t.declaredSize # -1 /\ realSize # t.declaredSize
                 ELSE realSize # t.declaredSize
  IN IF sig THEN finish(t, None)
     ELSE IF differs THEN [t EXCEPT !.phase = "exists", !.called = TRUE]
     ELSE finish(t, None)

afterExistsAlwaysChecksum(t, st, sig) ==
  IF sig THEN finish(t, None)
  ELSE IF ~st.exists
  THEN finish(t, Some(Issue("missing", t.role, t.file, t.expectedChecksum, "", HintOf(t.role))))
  ELSE [t EXCEPT !.phase = "checksum", !.fileExisted = TRUE]

\* diagnose.js 19-25: exists, poll the signal, decide whether to hash
afterExists(t, st, sig) ==
  IF sig THEN finish(t, None)
  ELSE IF ~st.exists
  THEN finish(t, Some(Issue("missing", t.role, t.file, t.expectedChecksum, "", HintOf(t.role))))
  ELSE IF t.expectedChecksum # ""
  THEN [t EXCEPT !.phase = "checksum", !.fileExisted = TRUE]
  ELSE finish([t EXCEPT !.fileExisted = TRUE], None)

\* diagnose.js 26-44: hash, poll the signal, compare
afterChecksum(t, st, sig) ==
  LET received == st.digest
  IN IF sig THEN finish(t, None)
     ELSE IF received # t.expectedChecksum
     THEN finish([t EXCEPT !.receivedChecksum = received],
                 Some(Issue("corrupted", t.role, t.file, t.expectedChecksum, received,
                            HintOf(t.role))))
     ELSE finish([t EXCEPT !.receivedChecksum = received], None)

stepTask(t, st, sig) ==
  CASE t.phase = "stat" -> afterStat(t, st, sig)
    [] t.phase = "exists" -> afterExists(t, st, sig)
    [] t.phase = "checksum" -> afterChecksum(t, st, sig)

\* a JavaScript array seen as an object: its own keys are its indices
arrayAsObject(array) ==
  [i \in 1..Len(array) |-> [key |-> ToString(i - 1), value |-> array[i]]]

\* obj[name], undefined (None) when obj has no such key
property(entries, name) ==
  LET hits == {i \in 1..Len(entries) : entries[i].key = name}
  IN IF hits = {} THEN None ELSE Some(entries[MinOf(hits)].value)

\* diagnose.js 137-140: resolvedVersion.downloads.client?.sha1 || ''
jarTask(rv) ==
  LET client == property(arrayAsObject(rv.downloads), "client")
  IN Task("minecraftJar", getVersionJar(rv.minecraftVersion),
          IF client = None THEN "" ELSE Get(client).sha1, "none", -1, FALSE)

\* diagnose.js 127-130: resolvedVersion.assetIndex?.sha1 || ''
assetIndexTask(rv) ==
  Task("assetIndex", getAssetsIndex(rv.assets),
       IF rv.assetIndex = None THEN "" ELSE Get(rv.assetIndex).sha1, "none", -1, FALSE)

\* diagnose.js 105-120
libraryTask(lib, opts) ==
  Task("library", getLibraryByPath(lib.download.path), lib.download.sha1,
       IF ~opts.given \/ ~opts.strict THEN "none" ELSE "library", lib.download.size, TRUE)

\* diagnose.js 151-167
assetTask(object, opts) ==
  Task("asset", getAsset(object.hash), object.hash,
       IF opts.given /\ opts.strict THEN "none" ELSE "asset", object.size, TRUE)

RECURSIVE collectReversed(_)
collectReversed(ts) ==
  IF ts = <<>> THEN <<>>
  ELSE collectReversed(Tail(ts)) \o
       (IF Head(ts).result = None THEN <<>> ELSE <<Get(Head(ts).result)>>)

\* issues.filter(isNotNull) over the settled checks, in list order
RECURSIVE collect(_)
collect(ts) ==
  IF ts = <<>> THEN <<>>
  ELSE (IF Head(ts).result = None THEN <<>> ELSE <<Get(Head(ts).result)>>) \o collect(Tail(ts))

allDone(ts) == \A i \in 1..Len(ts) : ts[i].phase = "done"

\* Version.resolveDependency run to its end on a set of version files:
\* after one call of walk, the next call or the outcome
RECURSIVE walkOn(_, _, _, _, _)
walkOn(o, files, tgt, plat, fuel) ==
  IF o.pc = "walk" /\ fuel > 0
  THEN walkOn(walkCall(files[o.next], o.stack, o.next, tgt, plat), files, tgt, plat, fuel - 1)
  ELSE o

resolveDependency(files, tgt, plat) ==
  walkOn(walkCall(files[tgt], <<>>, tgt, tgt, plat), files, tgt, plat, MaxStack)

\* part_001 141-145 and 147-245: resolve on the hierarchy the walk returned
parseOutcome(w) ==
  IF w.pc = "threw"
  THEN [ok |-> FALSE, error |-> Get(w.error).error, version |-> Get(w.error).version,
        value |-> None]
  ELSE IF resolveThrows(w.stack)
  THEN [ok |-> FALSE, error |-> "BadVersionJson", version |-> w.stack[1].id,
        value |-> None]
  ELSE [ok |-> TRUE, error |-> "", version |-> "", value |-> Some(resolveResult(w.stack))]

\* Version.parse (part_001 141-145): the ResolvedVersion, or the error thrown
parse(files, tgt, plat) == parseOutcome(resolveDependency(files, tgt, plat))

(***************************************************************************)
(* A diagnose call.  The version files and the options are the inputs; an  *)
(* installed file shows its state when a check first looks at it and keeps *)
(* it for the rest of the call.  The checks of one stage (Promise.all)     *)
(* advance one awaited step at a time, in any interleaving.                *)
(***************************************************************************)
SoloC == JsonFile(Manifest("C", "C", None, FALSE, TRUE))
\* a child manifest that adds no library of its own
Child(parent) ==
  JsonFile([Manifest("A", "A", Some(parent), FALSE, TRUE) EXCEPT !.libraries = <<>>])
ChildOfC == Child("C")
ChildOfB == Child("B")

Installation(tgt, a, b, c) ==
  [target |-> tgt,
   files |-> [f \in FileNames |-> IF f = "A" THEN a ELSE IF f = "B" THEN b ELSE c]]

UnpathedC == JsonFile([Manifest("C", "C", None, FALSE, TRUE) EXCEPT !.libraries = <<Unpathed>>])

\* a manifest whose assetIndex declares no sha1
UnsummedC == JsonFile([Manifest("C", "C", None, FALSE, TRUE) EXCEPT !.assetIndex = None])

Installations ==
  {Installation("C", MissingFile, MissingFile, SoloC),
   Installation("A", ChildOfC, MissingFile, SoloC),
   Installation("A", CorruptedFile, MissingFile, SoloC),
   Installation("A", ChildOfB, MissingFile, SoloC),
   Installation("A", ChildOfB, CorruptedFile, SoloC),
   Installation("B", MissingFile, MissingFile, SoloC),
   Installation("C", MissingFile, MissingFile, UnpathedC),
   Installation("C", MissingFile, MissingFile, UnsummedC)}

DiagnoseOptions ==
  {NoOptions} \cup {[given |-> TRUE, strict |-> s, signal |-> g] : s, g \in BOOLEAN}

InitDiagnose ==
  /\ rules = <<>>
  /\ featureList = {}
  /\ allow = None
  /\ features = <<>>
  /\ versionArgs = [jvm |-> <<>>, game |-> <<>>]
  /\ launchArgs = None
  /\ LaunchRestIdle
  /\ platform = Linux64
  /\ \E inst \in Installations :
       /\ target = inst.target
       /\ versionName = inst.target
       /\ versionFiles = inst.files
  /\ stack = <<>>
  /\ loaded = <<>>
  /\ walkPc = "idle"
  /\ walkError = None
  /\ resolved = None
  /\ resolveError = None
  /\ disk = <<>>
  /\ options \in DiagnoseOptions
  /\ aborted = FALSE
  /\ diagPc = "parse"
  /\ resolvedVersion = None
  /\ tasks = <<>>
  /\ assetIndexIssue = None
  /\ issues = <<>>
  /\ PureIdle

afterParseAlwaysMissing(p) ==
  IF p.ok
  THEN /\ resolvedVersion' = p.value
       /\ tasks' = <<jarTask(Get(p.value))>>
       /\ diagPc' = "jar"
       /\ UNCHANGED issues
  ELSE /\ issues' = <<Issue("missing", "versionJson", getVersionJson(p.version), "", "",
                            HintOf("versionJson"))>>
       /\ diagPc' = "done"
       /\ UNCHANGED <<resolvedVersion, tasks>>

\* diagnose.js 59-69: the catch of a failed parse, or the call of diagnoseJar
afterParse(p) ==
  IF p.ok
  THEN /\ resolvedVersion' = p.value
       /\ tasks' = <<jarTask(Get(p.value))>>
       /\ diagPc' = "jar"
       /\ UNCHANGED issues
  ELSE /\ issues' = <<Issue(IF p.error = "CorruptedVersionJson" THEN "corrupted"
                            ELSE "missing",
                            "versionJson", getVersionJson(p.version), "", "",
                            HintOf("versionJson"))>>
       /\ diagPc' = "done"
       /\ UNCHANGED <<resolvedVersion, tasks>>

\* diagnose.js 56-69
DiagnoseParse ==
  /\ diagPc = "parse"
  /\ afterParse(parse(versionFiles, target, platform))
  /\ UNCHANGED <<pureVars, ruleVars, launchVars, resolverVars, platform, disk, options, aborted,
                 assetIndexIssue>>

\* one awaited step (stat, exists or checksum) of one check of the stage
FileStep ==
  /\ diagPc \in {"jar", "assetIndex", "libraries", "assets"}
  /\ \E i \in 1..Len(tasks) :
       /\ tasks[i].phase # "done"
       /\ \E st \in DiskStates(tasks[i].file) :
            /\ tasks[i].file \in DOMAIN disk => disk[tasks[i].file] = st
            /\ disk' = (tasks[i].file :> st) @@ disk
            /\ tasks' = [tasks EXCEPT ![i] =
                           stepTask(tasks[i], st, signalAborted(tasks[i].passOptions))]
  /\ UNCHANGED <<pureVars, ruleVars, launchVars, resolverVars, platform, options, aborted, diagPc,
                 resolvedVersion, assetIndexIssue, issues>>

\* diagnose.js 69-75
JarDone ==
  /\ diagPc = "jar"
  /\ allDone(tasks)
  /\ issues' = issues \o collect(tasks)
  /\ tasks' = <<assetIndexTask(Get(resolvedVersion))>>
  /\ diagPc' = "assetIndex"
  /\ UNCHANGED <<pureVars, ruleVars, launchVars, resolverVars, platform, disk, options, aborted,
                 resolvedVersion, assetIndexIssue>>

\* diagnose.js 75-81 and 99-105: a library without a download path rejects
AssetIndexDone ==
  /\ diagPc = "assetIndex"
  /\ allDone(tasks)
  /\ assetIndexIssue' = tasks[1].result
  /\ issues' = issues \o collect(tasks)
  /\ LET libs == Get(resolvedVersion).libraries
     IN IF \E i \in 1..Len(libs) : libs[i].download.path = <<>>
        THEN /\ diagPc' = "rejected"
             /\ tasks' = <<>>
        ELSE /\ diagPc' = "libraries"
             /\ tasks' = [i \in 1..Len(libs) |-> libraryTask(libs[i], options)]
  /\ UNCHANGED <<pureVars, ruleVars, launchVars, resolverVars, platform, disk, options, aborted,
                 resolvedVersion>>

assetsCheckedAlways(indexIssue) == TRUE

\* diagnose.js 84: if (!assetIndexIssue)
assetsChecked(indexIssue) == indexIssue = None

\* diagnose.js 81-89: the index is read and parsed only if it raised no issue
LibrariesDone ==
  /\ diagPc = "libraries"
  /\ allDone(tasks)
  /\ issues' = issues \o collect(tasks)
  /\ LET index == getAssetsIndex(Get(resolvedVersion).assets)
     IN IF ~assetsChecked(assetIndexIssue)
        THEN /\ diagPc' = "done"
             /\ tasks' = <<>>
        ELSE IF ~disk[index].parsable
        THEN /\ diagPc' = "rejected"
             /\ tasks' = <<>>
        ELSE /\ diagPc' = "assets"
             /\ tasks' = [i \in 1..Len(IndexObjects) |-> assetTask(IndexObjects[i], options)]
  /\ UNCHANGED <<pureVars, ruleVars, launchVars, resolverVars, platform, disk, options, aborted,
                 resolvedVersion, assetIndexIssue>>

\* diagnose.js 89-96
AssetsDone ==
  /\ diagPc = "assets"
  /\ allDone(tasks)
  /\ issues' = issues \o collect(tasks)
  /\ diagPc' = "done"
  /\ UNCHANGED <<pureVars, ruleVars, launchVars, resolverVars, platform, disk, options, aborted,
                 resolvedVersion, tasks, assetIndexIssue>>

\* the caller aborts the signal it passed
Abort ==
  /\ diagPc \in {"parse", "jar", "assetIndex", "libraries", "assets"}
  /\ options.given /\ options.signal
  /\ ~aborted
  /\ aborted' = TRUE
  /\ UNCHANGED <<pureVars, ruleVars, launchVars, resolverVars, platform, disk, options, diagPc,
                 resolvedVersion, tasks, assetIndexIssue, issues>>

NextDiagnose ==
  \/ DiagnoseParse
  \/ FileStep
  \/ JarDone
  \/ AssetIndexDone
  \/ LibrariesDone
  \/ AssetsDone
  \/ Abort

SpecDiagnose == InitDiagnose /\ [][NextDiagnose]_vars

(***************************************************************************)
(* Properties of the diagnoser.                                            *)
(***************************************************************************)
\* the checks of the running stage that called diagnoseFile, have returned
\* and were not cancelled at a poll point
returnedCalls ==
  {i \in 1..Len(tasks) :
     /\ tasks[i].phase = "done"
     /\ tasks[i].called
     /\ ~(tasks[i].passOptions /\ options.given /\ options.signal /\ aborted)}

\* C9: without cancellation diagnoseFile returns an issue of type 'missing'
\* iff the file does not exist, an issue of type 'corrupted' iff the file
\* exists, expectedChecksum is non-empty and the digest differs from it, and
\* no issue otherwise; the issue carries the given role, file,
\* expectedChecksum and hint, and the received digest.
C9_DiagnoseFile ==
  \A i \in returnedCalls :
    LET t == tasks[i]
        st == disk[t.file]
        r == t.result
    IN /\ (r # None /\ Get(r).type = "missing") <=> ~st.exists
       /\ (r # None /\ Get(r).type = "corrupted")
            <=> (st.exists /\ t.expectedChecksum # "" /\ st.digest # t.expectedChecksum)
       /\ r # None => /\ Get(r).type \in {"missing", "corrupted"}
                      /\ Get(r).role = t.role
                      /\ Get(r).file = t.file
                      /\ Get(r).expectedChecksum = t.expectedChecksum
                      /\ Get(r).hint = HintOf(t.role)
                      /\ Get(r).receivedChecksum = (IF st.exists THEN st.digest ELSE "")

\* a library whose file is there with another digest has been reported, and
\* in the same stage a file without an expected checksum has passed
C9_Witness ==
  /\ \E i \in returnedCalls :
       /\ tasks[i].role = "library"
       /\ tasks[i].result # None
       /\ Get(tasks[i].result).type = "corrupted"
  /\ \E j \in returnedCalls :
       /\ tasks[j].expectedChecksum = ""
       /\ disk[tasks[j].file].exists
       /\ tasks[j].result = None

\* the sha1 the manifest chain declares under downloads.client, None if none
declaredClientSha1 ==
  LET w == resolveDependency(versionFiles, target, platform)
      client == IF w.pc = "returned" THEN property(merged(w.stack).downloadsMap, "client")
                ELSE None
  IN IF client = None THEN None ELSE Some(Get(client).sha1)

\* C10: when the version resolves, the client jar exists with a SHA-1 other
\* than the declared downloads.client.sha1, and the asset index, every
\* library and every asset are intact, the report holds exactly one issue,
\* of role minecraftJar and type corrupted, whose expectedChecksum is the
\* declared sha1.
C10_CorruptedJarReported ==
  (/\ diagPc = "done"
   /\ resolvedVersion # None
   /\ declaredClientSha1 # None
   /\ LET jar == getVersionJar(Get(resolvedVersion).minecraftVersion)
      IN /\ jar \in DOMAIN disk
         /\ disk[jar].exists
         /\ disk[jar].digest # Get(declaredClientSha1)
         /\ \A f \in DOMAIN disk \ {jar} : disk[f] = Genuine(f))
  => /\ Len(issues) = 1
     /\ issues[1].role = "minecraftJar"
     /\ issues[1].type = "corrupted"
     /\ issues[1].expectedChecksum = Get(declaredClientSha1)

\* the first version of the inheritance chain whose json cannot be loaded,
\* None if the chain loads to its root (or runs into a cycle)
RECURSIVE firstUnloadable(_, _, _)
firstUnloadable(files, name, fuel) ==
  IF files[name].state # "json" THEN Some(name)
  ELSE LET inheritsFrom == Get(files[name].json).inheritsFrom
       IN IF inheritsFrom = None \/ fuel = 0 THEN None
          ELSE firstUnloadable(files, Get(inheritsFrom), fuel - 1)

C12_NeverRejects == resolvedVersion # None => diagPc # "rejected"

\* one check run alone from its call to its return, never cancelled
RECURSIVE runToEnd(_, _)
runToEnd(t, st) == IF t.phase = "done" THEN t ELSE runToEnd(stepTask(t, st, FALSE), st)

\* the issues of a list of checks run one after another in list order
RECURSIVE serialIssues(_)
serialIssues(ts) ==
  IF ts = <<>> THEN <<>>
  ELSE LET r == runToEnd(Head(ts), disk[Head(ts).file]).result
       IN (IF r = None THEN <<>> ELSE <<Get(r)>>) \o serialIssues(Tail(ts))

serialReport(rv) ==
  LET libs == rv.libraries
      index == serialIssues(<<assetIndexTask(rv)>>)
  IN serialIssues(<<jarTask(rv)>>) \o index
     \o serialIssues([i \in 1..Len(libs) |-> libraryTask(libs[i], options)])
     \o (IF index # <<>> THEN <<>>
         ELSE serialIssues([i \in 1..Len(IndexObjects) |-> assetTask(IndexObjects[i], options)]))

\* C13: for a fixed filesystem state and no cancellation, report.issues is
\* the same (same issues, same order) for every interleaving of the library
\* checks and of the asset checks, and equals the report of the checks run
\* one after another in list order.
C13_ReportIsSerial ==
  (diagPc = "done" /\ resolvedVersion # None /\ ~aborted)
  => issues = serialReport(Get(resolvedVersion))

\* a report with two library issues and two asset issues
C13_Witness ==
  /\ diagPc = "done" /\ resolvedVersion # None /\ ~aborted
  /\ Cardinality({i \in 1..Len(issues) : issues[i].role = "library"}) = 2
  /\ Cardinality({i \in 1..Len(issues) : issues[i].role = "asset"}) = 2

\* C14: the cancellation signal of the options reaches every check (jar,
\* asset index, each library, each asset): a check that passes a poll point
\* while the signal is aborted returns there with no issue, whatever the
\* state of its file.
C14_SignalReachesEveryCheck ==
  [][\A i \in 1..Len(tasks) :
       (/\ diagPc' = diagPc
        /\ Len(tasks') = Len(tasks)
        /\ tasks'[i] # tasks[i]
        /\ options.given /\ options.signal /\ aborted)
       => (tasks'[i].phase = "done" /\ tasks'[i].result = None)]_vars

\* the asset index has been read and handed to JSON.parse (diagnose.js 85)
indexParsed ==
  \/ diagPc = "assets"
  \/ diagPc = "done" /\ \E i \in 1..Len(tasks) : tasks[i].role = "asset"
  \/ /\ diagPc = "rejected"
     /\ \A i \in 1..Len(Get(resolvedVersion).libraries) :
          Get(resolvedVersion).libraries[i].download.path # <<>>

\* C26: asset objects are checked only after the jar, asset-index and
\* library checks have completed and only when the asset-index check
\* produced no issue: an asset check or an asset issue exists only in the
\* asset stage or after it, with no other check pending and no assetIndex
\* issue in the report; and when the asset-index check reported the index
\* missing or corrupted, or the index file is not there, the report holds no
\* issue of role asset and the index file is not parsed.
C26_AssetsOnlyAfterIntactIndex ==
  LET indexReported == \E i \in 1..Len(issues) : issues[i].role = "assetIndex"
      assetChecks == \E i \in 1..Len(tasks) : tasks[i].role = "asset"
      assetIssues == \E i \in 1..Len(issues) : issues[i].role = "asset"
      indexAbsent ==
        /\ resolvedVersion # None
        /\ diagPc \in {"libraries", "assets", "done", "rejected"}
        /\ getAssetsIndex(Get(resolvedVersion).assets) \in DOMAIN disk
        /\ ~disk[getAssetsIndex(Get(resolvedVersion).assets)].exists
  IN /\ (assetChecks \/ assetIssues)
          => /\ diagPc \in {"assets", "done"}
             /\ \A i \in 1..Len(tasks) : tasks[i].role = "asset"
             /\ ~indexReported
     /\ (indexReported \/ indexAbsent)
          => ~assetChecks /\ ~assetIssues /\ ~indexParsed

\* a finished report that holds an assetIndex issue and a library issue
C26_Witness ==
  /\ diagPc = "done"
  /\ \E i \in 1..Len(issues) : issues[i].role = "assetIndex" /\ issues[i].type = "corrupted"
  /\ \E i \in 1..Len(issues) : issues[i].role = "library"

\* a finished report with an asset issue
C26_WitnessAssets ==
  /\ diagPc = "done"
  /\ \E i \in 1..Len(issues) : issues[i].role = "asset"

\* the library checks that have settled with the signal never aborted
settledLibraries ==
  {i \in 1..Len(tasks) : tasks[i].role = "library" /\ tasks[i].phase = "done" /\ ~aborted}

\* C27: non-strict (no options or strict falsy), diagnoseLibraries calls
\* diagnoseFile for every library with download.sha1 as expected checksum;
\* strict, it calls diagnoseFile only if the declared download.size is not
\* -1 and differs from the on-disk size (-1 for a file that is not there),
\* so a library of unknown size yields no issue even when its file is
\* missing, and one whose on-disk size equals the declared size yields no
\* issue even when its content differs.
C27_LibrariesStrictAndLax ==
  \A i \in settledLibraries :
    LET t == tasks[i]
        st == disk[t.file]
        lib == Get(resolvedVersion).libraries[i]
        strict == options.given /\ options.strict
        realSize == IF st.exists THEN st.size ELSE -1
    IN /\ t.expectedChecksum = lib.download.sha1
       /\ ~strict => t.called
       /\ strict => (t.called <=> (lib.download.size # -1 /\ realSize # lib.download.size))
       /\ ~t.called => t.result = None
       /\ (strict /\ lib.download.size = -1) => t.result = None
       /\ (strict /\ realSize = lib.download.size) => t.result = None

\* a strict run in which a library of unknown size is missing and another,
\* of the declared size, has another content, and neither is reported
C27_Witness ==
  /\ options.given /\ options.strict
  /\ \E i \in settledLibraries :
       /\ Get(resolvedVersion).libraries[i].download.size = -1
       /\ ~disk[tasks[i].file].exists
       /\ tasks[i].result = None
  /\ \E j \in settledLibraries :
       /\ disk[tasks[j].file].exists
       /\ disk[tasks[j].file].size = Get(resolvedVersion).libraries[j].download.size
       /\ disk[tasks[j].file].digest # Get(resolvedVersion).libraries[j].download.sha1
       /\ tasks[j].result = None

\* a non-strict run in which a missing library is reported
C27_WitnessLax ==
  /\ ~(options.given /\ options.strict)
  /\ \E i \in settledLibraries :
       tasks[i].result # None /\ Get(tasks[i].result).type = "missing"

(***************************************************************************)
(* The unzip package (packages/unzip/src/index.js): walkEntriesGenerator   *)
(* and the functions that iterate it.  The zip is a yauzl ZipFile: with    *)
(* lazyEntries it emits one event for each readEntry() call, without it    *)
(* emits its entries and then 'end' on its own; an 'error' ends its        *)
(* events.  A step of the generator runs from one suspension (await wait,  *)
(* yield) to the next; an event handler runs whenever the generator is     *)
(* suspended.                                                              *)
(***************************************************************************)
MaxEntries == 3

EntryNames == {"a", "b", "c"}

Entry(fileName) == [fileName |-> fileName]

\* the listeners the generator adds (index.js 127-129) and those of others
GenListeners == {<<"entry", "onEntry">>, <<"end", "onEnd">>, <<"error", "onError">>}
OtherListeners == {<<"end", "other">>, <<"error", "other">>}

ZipError == "zip error"
HandlerError == "handler error"

\* a criterion of filterEntries: a file name or a predicate on the entry
Named(fileName) == [kind |-> "string", fileName |-> fileName, accepts |-> {}]
Predicate(accepts) == [kind |-> "function", fileName |-> "", accepts |-> accepts]

\* index.js 165-176: bag[0] === entry.fileName, or bag[0](entry)
bagMatches(criterion, entry) ==
  IF criterion.kind = "string" THEN criterion.fileName = entry.fileName
  ELSE entry.fileName \in criterion.accepts

\* index.js 164-178: the loop over the bags for one entry, from bag i
RECURSIVE bagLoop(_, _, _, _)
bagLoop(bags, remaining, i, entry) ==
  IF i > Len(bags) THEN [bags |-> bags, remaining |-> remaining]
  ELSE LET hit == bagMatches(bags[i][1], entry)
           bags1 == IF hit THEN [bags EXCEPT ![i] = <<bags[i][1], Some(entry)>>] ELSE bags
           remaining1 == IF hit THEN remaining - 1 ELSE remaining
       IN IF remaining1 = 0 THEN [bags |-> bags1, remaining |-> remaining1]
          ELSE bagLoop(bags1, remaining1, i + 1, entry)

\* the three functions that iterate the generator, with their arguments
ReadAllEntries ==
  [kind |-> "readAllEntries", handler |-> <<>>, entries |-> <<>>, bags |-> <<>>,
   remaining |-> 0, outcome |-> "pending", error |-> None]

\* entryHandler by the file name of the entry: "continue" (falsy result),
\* "stop" (truthy result) or "throw"
WalkEntries(handler) ==
  [kind |-> "walkEntries", handler |-> handler, entries |-> <<>>, bags |-> <<>>,
   remaining |-> 0, outcome |-> "pending", error |-> None]

\* index.js 158-159
FilterEntries(criteria) ==
  [kind |-> "filterEntries", handler |-> <<>>, entries |-> <<>>,
   bags |-> [i \in 1..Len(criteria) |-> <<criteria[i], None>>],
   remaining |-> Len(criteria), outcome |-> "pending", error |-> None]

Handlers ==
  {[n \in EntryNames |-> "continue"],
   [n \in EntryNames |-> IF n = "a" THEN "stop" ELSE "continue"],
   [n \in EntryNames |-> IF n = "b" THEN "throw" ELSE "continue"]}

CriteriaLists ==
  {<<Named("a"), Named("b")>>,
   <<Predicate({"a", "b"}), Named("c")>>,
   <<Named("a"), Predicate({"a"})>>}

Consumers ==
  {ReadAllEntries} \cup {WalkEntries(h) : h \in Handlers}
    \cup {FilterEntries(cs) : cs \in CriteriaLists}

\* the zips: up to MaxEntries entries of different names
Zips ==
  {q \in UNION {[1..n -> EntryNames] : n \in 0..MaxEntries} :
     \A i, j \in 1..Len(q) : q[i] = q[j] => i = j}

InitUnzip ==
  /\ rules = <<>>
  /\ featureList = {}
  /\ allow = None
  /\ platform = Linux64
  /\ features = <<>>
  /\ versionArgs = [jvm |-> <<>>, game |-> <<>>]
  /\ launchArgs = None
  /\ LaunchRestIdle
  /\ ResolverIdle
  /\ DiagnoseIdle
  /\ FormatIdle
  /\ LibraryIdle
  /\ CoordinateIdle
  /\ \E q \in Zips, lazy \in BOOLEAN :
       \E failAt \in {None} \cup {Some(k) : k \in 0..Len(q)} :
         zip = [entries |-> [i \in 1..Len(q) |-> Entry(q[i])], lazyEntries |-> lazy,
                failAt |-> failAt, read |-> 0, requests |-> 0, ended |-> FALSE,
                errored |-> FALSE, listeners |-> OtherListeners]
  /\ gen = [pc |-> "start", ended |-> FALSE, error |-> None, wait |-> "pending",
            entries |-> <<>>, yielded |-> None]
  /\ consumer \in Consumers
  /\ emitted = <<>>
  /\ offPace = FALSE

restVars ==
  <<ruleVars, launchVars, resolverVars, diagVars, platform, formatTemplate, formatArgs,
    formatted, rawLib, resolvedLib, coordinate, resolvedInfo, pathInfo>>

finallyKeepsOnError(z) ==
  [z EXCEPT !.listeners = @ \ {<<"entry", "onEntry">>, <<"end", "onEnd">>}]

\* index.js 150-154: the finally block
finally(z) == [z EXCEPT !.listeners = @ \ GenListeners]

\* index.js 141-148 and 132-136: from the inner loop to the next suspension
\* or to the end of the outer loop
continue(g, lazy) ==
  IF Len(g.entries) > 0 /\ ~g.ended
  THEN [gen |-> [g EXCEPT !.pc = "yield",
                          !.yielded = Some(g.entries[Len(g.entries)]),
                          !.entries = SubSeq(g.entries, 1, Len(g.entries) - 1)],
        readEntry |-> FALSE]
  ELSE IF g.ended
  THEN [gen |-> [g EXCEPT !.pc = "done", !.wait = "pending", !.yielded = None],
        readEntry |-> FALSE]
  ELSE [gen |-> [g EXCEPT !.pc = "await", !.wait = "pending", !.yielded = None],
        readEntry |-> lazy]

\* what a step of the generator leaves: the zip after a readEntry() call or
\* after the finally block, and the consumer's promise resolved when the
\* generator has completed
afterGenerator(z, c, o) ==
  /\ gen' = o.gen
  /\ zip' = IF o.gen.pc = "done" THEN finally(z)
            ELSE [z EXCEPT !.requests = IF o.readEntry THEN @ + 1 ELSE @]
  /\ consumer' = IF o.gen.pc = "done" THEN [c EXCEPT !.outcome = "resolved"] ELSE c

\* index.js 103-136: the first next() adds the listeners and runs to await wait
GeneratorStart ==
  /\ gen.pc = "start"
  /\ gen' = [gen EXCEPT !.pc = "await"]
  /\ zip' = [zip EXCEPT !.listeners = @ \cup GenListeners,
                        !.requests = IF zip.lazyEntries THEN @ + 1 ELSE @]
  /\ UNCHANGED <<restVars, consumer, emitted, offPace>>

\* index.js 136-148: the generator resumes after await wait
GeneratorWake ==
  /\ gen.pc = "await"
  /\ gen.wait = "resolved"
  /\ IF gen.error # None
     THEN /\ gen' = [gen EXCEPT !.pc = "threw"]
          /\ zip' = finally(zip)
          /\ consumer' = [consumer EXCEPT !.outcome = "rejected", !.error = gen.error]
     ELSE afterGenerator(zip, consumer, continue(gen, zip.lazyEntries))
  /\ UNCHANGED <<restVars, emitted, offPace>>

\* the body of the for await loop on the yielded entry (index.js 163-180,
\* 196-202, 228-230), then next() or, on a break or a throw, return()
ConsumerStep ==
  /\ gen.pc = "yield"
  /\ LET entry == Get(gen.yielded)
         resumed == continue([gen EXCEPT !.ended = FALSE], zip.lazyEntries)
         returned == [gen EXCEPT !.pc = "done", !.yielded = None]
     IN CASE consumer.kind = "readAllEntries" ->
               afterGenerator(zip, [consumer EXCEPT !.entries = Append(@, entry)], resumed)
          [] consumer.kind = "filterEntries" ->
               LET b == bagLoop(consumer.bags, consumer.remaining, 1, entry)
               IN afterGenerator(zip, [consumer EXCEPT !.bags = b.bags,
                                                        !.remaining = b.remaining],
                                 resumed)
          [] consumer.kind = "walkEntries" ->
               IF consumer.handler[entry.fileName] = "continue"
               THEN afterGenerator(zip, consumer, resumed)
               ELSE /\ gen' = returned
                    /\ zip' = finally(zip)
                    /\ consumer' =
                         IF consumer.handler[entry.fileName] = "stop"
                         THEN [consumer EXCEPT !.outcome = "resolved"]
                         ELSE [consumer EXCEPT !.outcome = "rejected",
                                               !.error = Some(HandlerError)]
  /\ UNCHANGED <<restVars, emitted, offPace>>

\* the generator is suspended with its listeners on the zip
listening == gen.pc \in {"await", "yield"}

\* a promise job is pending: the generator is about to resume after await
\* wait, or a consumer that does not wait for anything holds the entry
jobPending ==
  \/ gen.pc = "await" /\ gen.wait = "resolved"
  \/ gen.pc = "yield" /\ consumer.kind # "walkEntries"

\* the zip can emit its next event
zipReady ==
  /\ listening
  /\ ~zip.errored
  /\ zip.lazyEntries => zip.requests > 0

answered(z) == [z EXCEPT !.requests = IF z.lazyEntries THEN @ - 1 ELSE @]

\* 'entry': onEntry (index.js 112-115)
EmitEntry ==
  /\ zipReady
  /\ zip.read < Len(zip.entries)
  /\ zip.failAt # Some(zip.read)
  /\ zip' = [answered(zip) EXCEPT !.read = @ + 1]
  /\ gen' = [gen EXCEPT !.entries = Append(@, zip.entries[zip.read + 1]),
                        !.wait = "resolved"]
  /\ emitted' = Append(emitted, zip.entries[zip.read + 1])
  /\ offPace' = (offPace \/ jobPending)
  /\ UNCHANGED <<restVars, consumer>>

\* 'end': onEnd (index.js 117-120)
EmitEnd ==
  /\ zipReady
  /\ zip.read = Len(zip.entries)
  /\ zip.failAt # Some(zip.read)
  /\ ~zip.lazyEntries => ~zip.ended
  /\ zip' = [answered(zip) EXCEPT !.ended = TRUE]
  /\ gen' = [gen EXCEPT !.ended = TRUE, !.wait = "resolved"]
  /\ offPace' = (offPace \/ jobPending)
  /\ UNCHANGED <<restVars, consumer, emitted>>

\* 'error': onError (index.js 122-125)
EmitError ==
  /\ zipReady
  /\ zip.failAt = Some(zip.read)
  /\ zip' = [answered(zip) EXCEPT !.errored = TRUE]
  /\ gen' = [gen EXCEPT !.error = Some(ZipError), !.wait = "resolved"]
  /\ offPace' = (offPace \/ jobPending)
  /\ UNCHANGED <<restVars, consumer, emitted>>

NextUnzip ==
  \/ GeneratorStart
  \/ GeneratorWake
  \/ ConsumerStep
  \/ EmitEntry
  \/ EmitEnd
  \/ EmitError

SpecUnzip == InitUnzip /\ [][NextUnzip]_vars

\* every job and every event that can run does run
SpecUnzipFair == SpecUnzip /\ WF_vars(NextUnzip)

\* how often an entry occurs in a list
occurrences(list, entry) == Cardinality({i \in 1..Len(list) : list[i] = entry})

\* C22: whenever readAllEntries resolves, its list holds every entry the
\* zip emitted through an 'entry' event exactly once and nothing else.
C22_ReadAllEntriesComplete ==
  (consumer.kind = "readAllEntries" /\ consumer.outcome = "resolved")
  => /\ Len(consumer.entries) = Len(emitted)
     /\ \A i \in 1..Len(emitted) : occurrences(consumer.entries, emitted[i]) = 1

\* C23: filterEntries resolves with a list as long as the criteria in which
\* position i holds an entry of the zip that matches criterion i whenever
\* the zip holds such an entry, and undefined only when it holds none.
C23_FilterEntriesFindsEveryMatch ==
  (consumer.kind = "filterEntries" /\ consumer.outcome = "resolved")
  => \A i \in 1..Len(consumer.bags) :
       LET criterion == consumer.bags[i][1]
           found == consumer.bags[i][2]
           matching == {k \in 1..Len(zip.entries) : bagMatches(criterion, zip.entries[k])}
       IN /\ matching # {} => found # None
          /\ \A e \in found : \E k \in matching : zip.entries[k] = e

\* C28: once the zip has emitted 'end' the iteration finishes (the
\* generator completes and readAllEntries resolves), and once it has emitted
\* 'error' the generator throws that error (readAllEntries rejects with it)
\* unless the consumer has left the loop first; it does not wait forever.
C28_IterationFinishes ==
  /\ zip.ended ~> (gen.pc = "done")
  /\ zip.errored ~> (gen.pc \in {"threw", "done"})
  /\ [](consumer.kind = "readAllEntries" /\ consumer.outcome # "pending"
        => IF zip.errored
           THEN consumer.outcome = "rejected" /\ consumer.error = Some(ZipError)
           ELSE consumer.outcome = "resolved")

\* C29: whenever an iteration has ended (the generator has completed after
\* 'end', has been returned by a consumer that breaks out or throws, or has
\* thrown the zip's error), the zip holds none of the listeners the
\* generator added and exactly the listeners of others it held before.
C29_ListenersRemoved ==
  /\ gen.pc \in {"done", "threw"}
       => zip.listeners \cap GenListeners = {} /\ zip.listeners = OtherListeners
  /\ consumer.outcome # "pending" => gen.pc \in {"done", "threw"}
  /\ OtherListeners \subseteq zip.listeners

\* a walkEntries whose handler returned true on an entry while another entry
\* was still to come
C29_Witness ==
  /\ consumer.kind = "walkEntries"
  /\ consumer.outcome = "resolved"
  /\ gen.pc = "done" /\ ~gen.ended
  /\ zip.read < Len(zip.entries)

\* an iteration ended by exhaustion after 'end'
C29_WitnessEnd ==
  /\ gen.pc = "done" /\ gen.ended
  /\ Len(emitted) = MaxEntries
  /\ consumer.outcome = "resolved"

\* an iteration ended by the zip's error
C29_WitnessError ==
  /\ gen.pc = "threw"
  /\ consumer.outcome = "rejected" /\ consumer.error = Some(ZipError)

====
